---- MODULE Spec2Model ----
(***************************************************************************)
(* Valtric Consulting backend: the evidence-constrained valuation          *)
(* pipeline.                                                                *)
(*                                                                          *)
(*   app/services/validation.py   sanitize_analysis_payload                 *)
(*   app/services/analyzer.py     analyze_core, _fallback_citations         *)
(*   app/services/enforce.py      enforce_evidence_rule                     *)
(*   app/routers/analyze.py       POST /analyze                             *)
(*   app/schemas.py               AnalysisV1, CompCitation                  *)
(*                                                                          *)
(* Python values are tagged records:                                        *)
(*   [t |-> "null"]              None, and a key that is absent (dict.get)  *)
(*   [t |-> "num", n |-> i]      a finite number; i counts thirds of 1e-6,  *)
(*                               so 1.0 is One, every 6-decimal number is   *)
(*                               on the grid, and rounding to 6 places has  *)
(*                               no ties                                    *)
(*   [t |-> "nan"]               float('nan')                               *)
(*   [t |-> "bigint"]            an int beyond the float range (10**400)    *)
(*   [t |-> "bool", b |-> ...]   True / False                               *)
(*   [t |-> "str", s |-> ...]    a string                                   *)
(*   [t |-> "list", l |-> ...]   a list or tuple                            *)
(*   [t |-> "obj", o |-> ...]    a dict, as a function from its keys        *)
(*   [t |-> "raise", e |-> ...]  an exception leaving a call                *)
(***************************************************************************)
EXTENDS Integers, Sequences, FiniteSets, TLC

VARIABLES
    pc,                 \* position of the run
    payload,            \* sanitize: the payload argument
    baseline_multiple,  \* sanitize / analyze_core: baseline_multiple
    retrieval_required, \* sanitize / analyze_core: retrieval_required
    retrieval_hits,     \* sanitize / analyze_core: retrieval_hits
    first,              \* outcome of the first sanitize call
    second,             \* outcome of the second sanitize call
    question,           \* analyze_core: the question
    comps,              \* analyze_core: chunks returned by get_similar_chunks
    raw_output,         \* analyze_core: payload returned by analyze_valuation
    sanitize_calls,     \* analyze_core: number of sanitize calls made
    deal,               \* analyze_core: the coerced deal (price, ebitda)
    analysis,           \* analyze_core: the AnalysisV1 it returns
    recovered,          \* analyze_core: the except branch re-sanitized
    exc,                \* analyze_core: the exception that left it, if any
    response,           \* POST /analyze: what the caller receives
    settings,           \* app.settings: which backends are configured
    db,                 \* get_similar_chunks: a db session was passed
    embeddings,         \* get_similar_chunks: outcome of embed_texts
    supabase_hits,      \* get_similar_chunks: outcome of the remote search
    local_hits,         \* get_similar_chunks: outcome of the local search
    chunk_hits,         \* get_similar_chunks: hits, the hits kept so far
    reranked,           \* _maybe_rerank: outcome of rerank_documents
    baseline,           \* analyze_valuation: the heuristic baseline
    complexity,         \* analyze_valuation: "easy" or "hard"
    deepseek_response,  \* analyze_valuation: outcome of the triage call
    deepseek_payload,   \* analyze_valuation: the triage raw payload, or None
    triage_plan,        \* analyze_valuation: the parsed TriagePlan, or None
    escalate_to_gpt,    \* analyze_valuation: the escalation decision
    llm_response,       \* analyze_valuation: outcome of the synthesis call
    final_payload,      \* analyze_valuation: the payload it returns
    calls,              \* outbound calls issued by the request, per backend
    tasks,              \* server: the requests in flight, by request id
    llm_sem,            \* consultant._LLM_SEM: its counter and waiters
    rerank_sem,         \* retrieve._RERANK_SEM: its counter and waiters
    now,                \* the monotonic clock, in ticks
    _store,             \* TTLCache._store: the entries, least recently used first
    heap,               \* the Python objects that exist, by identity
    refs,               \* the objects the cache's caller holds, oldest first
    ghost,              \* history of the cache's use, for the properties
    last_op             \* the last cache operation and what it returned

vars == <<pc, payload, baseline_multiple, retrieval_required, retrieval_hits,
          first, second, question, comps, raw_output, sanitize_calls,
          deal, analysis, recovered, exc, response,
          settings, db, embeddings, supabase_hits, local_hits, chunk_hits, reranked,
          baseline, complexity, deepseek_response, deepseek_payload, triage_plan,
          escalate_to_gpt, llm_response, final_payload, calls,
          tasks, llm_sem, rerank_sem, now,
          _store, heap, refs, ghost, last_op>>

\* the variables of one /analyze request
requestVars == <<question, comps, raw_output, sanitize_calls, deal, analysis,
                 recovered, exc, response>>

\* the variables of retrieval and reasoning (get_similar_chunks, analyze_valuation)
pipelineVars == <<settings, db, embeddings, supabase_hits, local_hits, chunk_hits, reranked,
                  baseline, complexity, deepseek_response, deepseek_payload,
                  triage_plan, escalate_to_gpt, llm_response, final_payload, calls>>

\* the variables of the server: requests in flight, semaphores, clock
serverVars == <<tasks, llm_sem, rerank_sem, now>>

\* the variables of the analyses cache and its caller
cacheVars == <<_store, heap, refs, ghost, last_op>>

-----------------------------------------------------------------------------
(* Numbers *)

\* 1.0 on the grid (three steps per 1e-6)
One == 3 * 1000000

\* k/m as a grid number
Dec(k, m) == (One * k) \div m

JNull == [t |-> "null"]
JNaN == [t |-> "nan"]
JBig == [t |-> "bigint"]
JNum(i) == [t |-> "num", n |-> i]
JBool(v) == [t |-> "bool", b |-> v]
JStr(v) == [t |-> "str", s |-> v]
JList(v) == [t |-> "list", l |-> v]
JObj(v) == [t |-> "obj", o |-> v]
Exc(name) == [t |-> "raise", e |-> name]

\* Python comparisons of floats: every comparison with NaN is False
FLt(a, b) == a.t = "num" /\ b.t = "num" /\ a.n < b.n
FGt(a, b) == FLt(b, a)
FLe(a, b) == a.t = "num" /\ b.t = "num" /\ a.n <= b.n

\* builtin max(a, b) / min(a, b): the first argument unless the second beats it
PyMax(a, b) == IF FGt(b, a) THEN b ELSE a
PyMin(a, b) == IF FLt(b, a) THEN b ELSE a

FAdd(a, i) == IF a.t = "nan" THEN JNaN ELSE JNum(a.n + i)

-----------------------------------------------------------------------------
(* Python builtins used by the sanitizer *)

\* bool(v)
Truthy(v) ==
    CASE v.t = "null" -> FALSE
      [] v.t = "bool" -> v.b
      [] v.t = "num" -> v.n # 0
      [] v.t = "nan" -> TRUE
      [] v.t = "bigint" -> TRUE
      [] v.t = "str" -> v.s # ""
      [] v.t = "list" -> v.l # <<>>
      [] v.t = "obj" -> DOMAIN v.o # {}

Digits == <<"0", "1", "2", "3", "4", "5", "6", "7", "8", "9">>

\* str(v), for the values that reach a str() call in the model: strings, None,
\* booleans, NaN and one-digit integers
PyStr(v) ==
    CASE v.t = "str" -> v.s
      [] v.t = "null" -> "None"
      [] v.t = "bool" -> IF v.b THEN "True" ELSE "False"
      [] v.t = "nan" -> "nan"
      [] v.t = "num" /\ v.n % One = 0 /\ v.n \div One \in 0..9 -> Digits[(v.n \div One) + 1]

\* float(s) for a string: the literals the model uses, "nan", or ValueError
FloatLiterals == [lit \in {"6.5", "0.7"} |-> IF lit = "6.5" THEN Dec(65, 10) ELSE Dec(7, 10)]

ParseFloat(s) ==
    IF s = "nan" THEN JNaN
    ELSE IF s \in DOMAIN FloatLiterals THEN JNum(FloatLiterals[s])
    ELSE Exc("ValueError")

\* float(v)
PyFloat(v) ==
    CASE v.t = "num" -> v
      [] v.t = "nan" -> v
      [] v.t = "bool" -> JNum(IF v.b THEN One ELSE 0)
      [] v.t = "str" -> ParseFloat(v.s)
      [] v.t = "bigint" -> Exc("OverflowError")
      [] OTHER -> Exc("TypeError")

\* s.startswith(prefix)
StartsWith(s, prefix) ==
    Len(s) >= Len(prefix) /\ SubSeq(s, 1, Len(prefix)) = prefix

\* d.get(key)
DictGet(d, key) == IF key \in DOMAIN d THEN d[key] ELSE JNull

\* list(dict.fromkeys(xs)): first occurrences, in order
RECURSIVE Dedup(_)
Dedup(xs) ==
    IF xs = <<>> THEN <<>>
    ELSE LET init == Dedup(SubSeq(xs, 1, Len(xs) - 1))
             last == xs[Len(xs)]
         IN IF \E i \in 1..Len(init) : init[i] = last THEN init ELSE Append(init, last)

-----------------------------------------------------------------------------
(* app/services/validation.py *)

\* _as_float: float(value), the default on TypeError or ValueError
_as_float(value, default) ==
    LET r == PyFloat(value)
    IN IF r.t = "raise" /\ r.e \in {"TypeError", "ValueError"} THEN default ELSE r

\* round(x, 6) on the grid: the nearest multiple of 1e-6 (three steps)
Round6(i) ==
    LET r == i % 3
    IN IF r = 0 THEN i ELSE IF r = 1 THEN i - 1 ELSE i + 1

\* _round(value): round(float(value), 6); NaN stays NaN
_round(value) == IF value.t = "nan" THEN JNaN ELSE JNum(Round6(value.n))

\* CleanComps without the "chunk:" prefix test: any string source_id survives
RECURSIVE CleanComps_NoPrefix(_)
CleanComps_NoPrefix(items) ==
    IF items = <<>> THEN <<>>
    ELSE LET item == Head(items)
             rest == CleanComps_NoPrefix(Tail(items))
         IN IF item.t # "obj" THEN rest
            ELSE LET source_id == DictGet(item.o, "source_id")
                     name == DictGet(item.o, "name")
                     ticker == DictGet(item.o, "ticker")
                     keys == {"source_id"}
                             \cup (IF Truthy(name) THEN {"name"} ELSE {})
                             \cup (IF Truthy(ticker) THEN {"ticker"} ELSE {})
                     cleaned == [k \in keys |->
                                   CASE k = "source_id" -> source_id
                                     [] k = "name" -> JStr(PyStr(name))
                                     [] k = "ticker" -> JStr(PyStr(ticker))]
                 IN IF source_id.t # "str" THEN rest ELSE <<JObj(cleaned)>> \o rest

\* lines 42-56: the citations that survive filtering
RECURSIVE CleanComps(_)
CleanComps(items) ==
    IF items = <<>> THEN <<>>
    ELSE LET item == Head(items)
             rest == CleanComps(Tail(items))
         IN IF item.t # "obj" THEN rest
            ELSE LET source_id == DictGet(item.o, "source_id")
                     name == DictGet(item.o, "name")
                     ticker == DictGet(item.o, "ticker")
                     keys == {"source_id"}
                             \cup (IF Truthy(name) THEN {"name"} ELSE {})
                             \cup (IF Truthy(ticker) THEN {"ticker"} ELSE {})
                     cleaned == [k \in keys |->
                                   CASE k = "source_id" -> source_id
                                     [] k = "name" -> JStr(PyStr(name))
                                     [] k = "ticker" -> JStr(PyStr(ticker))]
                 IN IF source_id.t # "str" \/ ~StartsWith(source_id.s, "chunk:")
                    THEN rest
                    ELSE <<JObj(cleaned)>> \o rest

\* lines 62-70: risk_flags coerced to a list of strings
RECURSIVE RiskStrings(_)
RiskStrings(entries) ==
    IF entries = <<>> THEN <<>>
    ELSE LET entry == Head(entries)
             rest == RiskStrings(Tail(entries))
         IN IF entry.t = "null" THEN rest ELSE <<PyStr(entry)>> \o rest

CollectRisks(raw) ==
    LET raw_risks == IF Truthy(raw) THEN raw ELSE JList(<<>>)
    IN IF raw_risks.t = "list" THEN RiskStrings(raw_risks.l)
       ELSE IF Truthy(raw_risks) THEN <<PyStr(raw_risks)>>
       ELSE <<>>

\* the conclusion taken with repr() in place of str(): a string gains quotes
CoerceConclusion_Repr(conclusion) ==
    IF conclusion.t = "null" THEN JStr("undetermined")
    ELSE IF conclusion.t = "str" THEN JStr("'" \o conclusion.s \o "'")
    ELSE JStr(PyStr(conclusion))

\* lines 26-27: str(conclusion), "undetermined" for None
CoerceConclusion(conclusion) ==
    IF conclusion.t # "null" THEN JStr(PyStr(conclusion)) ELSE JStr("undetermined")

\* lines 31-37: (lo, hi) from payload["range"], defaulting to implied -/+ 0.5
RangeBounds(raw_range, implied) ==
    IF raw_range.t = "list" /\ Len(raw_range.l) = 2
    THEN [lo |-> _as_float(raw_range.l[1], FAdd(implied, -(One \div 2))),
          hi |-> _as_float(raw_range.l[2], FAdd(implied, One \div 2))]
    ELSE [lo |-> FAdd(implied, -(One \div 2)), hi |-> FAdd(implied, One \div 2)]

\* lines 42-44: payload.get("comps_used") or [], filtered when it is a list
FilterComps(raw) ==
    LET raw_comps == IF Truthy(raw) THEN raw ELSE JList(<<>>)
    IN IF raw_comps.t = "list" THEN CleanComps(raw_comps.l) ELSE <<>>

\* the raise without the test of retrieval_hits
EvidenceFailure_NoHitsTest(rr, hits, comps_used) == rr /\ comps_used = <<>>

\* the raise tested with retrieval_hits > 1
EvidenceFailure_OffByOne(rr, hits, comps_used) == rr /\ hits > 1 /\ comps_used = <<>>

\* line 59: the condition of the deliberate raise
EvidenceFailure(rr, hits, comps_used) == rr /\ hits > 0 /\ comps_used = <<>>

\* line 73: max(0.0, min(1.0, confidence))
ClampConfidence(confidence) == PyMax(JNum(0), PyMin(JNum(One), confidence))

\* the guardrail without the override of the range
Guardrail_KeepsRange(comps_used, implied, lo, hi, confidence, risks, b) ==
    IF comps_used = <<>>
    THEN [implied |-> JNum(b), lo |-> lo, hi |-> hi,
          confidence |-> PyMin(confidence, JNum(One \div 2)),
          risks |-> IF \E i \in 1..Len(risks) : risks[i] = "no_citable_evidence"
                    THEN risks ELSE Append(risks, "no_citable_evidence")]
    ELSE [implied |-> implied, lo |-> lo, hi |-> hi,
          confidence |-> confidence, risks |-> risks]

\* the guardrail with the confidence cap outside the if
Guardrail_CapsAlways(comps_used, implied, lo, hi, confidence, risks, b) ==
    IF comps_used = <<>>
    THEN [implied |-> JNum(b),
          lo |-> PyMax(JNum(0), JNum(b - (One \div 2))),
          hi |-> JNum(b + (One \div 2)),
          confidence |-> PyMin(confidence, JNum(One \div 2)),
          risks |-> IF \E i \in 1..Len(risks) : risks[i] = "no_citable_evidence"
                    THEN risks ELSE Append(risks, "no_citable_evidence")]
    ELSE [implied |-> implied, lo |-> lo, hi |-> hi,
          confidence |-> PyMin(confidence, JNum(One \div 2)), risks |-> risks]

\* lines 75-82: the baseline guardrail, applied when no citation survived
Guardrail(comps_used, implied, lo, hi, confidence, risks, b) ==
    IF comps_used = <<>>
    THEN [implied |-> JNum(b),
          lo |-> PyMax(JNum(0), JNum(b - (One \div 2))),
          hi |-> JNum(b + (One \div 2)),
          confidence |-> PyMin(confidence, JNum(One \div 2)),
          risks |-> IF \E i \in 1..Len(risks) : risks[i] = "no_citable_evidence"
                    THEN risks ELSE Append(risks, "no_citable_evidence")]
    ELSE [implied |-> implied, lo |-> lo, hi |-> hi,
          confidence |-> confidence, risks |-> risks]

\* lines 85-87: order the range and round both ends
NormaliseRange(lo, hi) ==
    IF FGt(lo, hi) THEN JList(<<_round(hi), _round(lo)>>)
    ELSE JList(<<_round(lo), _round(hi)>>)

Ok(v) == [st |-> "ok", val |-> v]
Raised(name) == [st |-> name, val |-> JNull]
IsOk(outcome) == outcome.st = "ok"

\* sanitize_analysis_payload(payload, baseline_multiple=b, retrieval_required=rr,
\* retrieval_hits=hits): Ok(result) or the exception that leaves the call.
\* b is a finite grid number.
sanitize_analysis_payload(p, b, rr, hits) ==
    LET implied == _as_float(p.implied_multiple, JNum(b))
        bounds == RangeBounds(p.range, implied)
        comps_used == FilterComps(p.comps_used)
        conf0 == _as_float(p.confidence, JNum(Dec(45, 100)))
        g == Guardrail(comps_used, implied, bounds.lo, bounds.hi,
                       ClampConfidence(conf0), CollectRisks(p.risk_flags), b)
        dedup == Dedup(g.risks)
    IN IF implied.t = "raise" THEN Raised(implied.e)
       ELSE IF bounds.lo.t = "raise" THEN Raised(bounds.lo.e)
       ELSE IF bounds.hi.t = "raise" THEN Raised(bounds.hi.e)
       ELSE IF EvidenceFailure(rr, hits, comps_used) THEN Raised("ValueError")
       ELSE IF conf0.t = "raise" THEN Raised(conf0.e)
       ELSE Ok([conclusion |-> CoerceConclusion(p.conclusion),
                implied_multiple |-> _round(g.implied),
                range |-> NormaliseRange(g.lo, g.hi),
                reasoning |-> IF p.reasoning.t = "str" THEN p.reasoning ELSE JStr(""),
                comps_used |-> JList(comps_used),
                risk_flags |-> JList([i \in 1..Len(dedup) |-> JStr(dedup[i])]),
                confidence |-> g.confidence])

-----------------------------------------------------------------------------
(* Bounds and input sets *)

\* longest comps_used list a payload carries
MaxComps == 2

\* largest retrieval_hits passed to the sanitizer directly
MaxHits == 1

\* sequences over S of length at most n
SeqsUpTo(S, n) == UNION {[1..k -> S] : k \in 0..n}

ItemBadFormat == JStr("bad-format")
ItemNotAChunk == JObj([source_id |-> JStr("not-a-chunk"), name |-> JStr("N")])
ItemNoSourceId == JObj([name |-> JStr("Bad Comp")])
ItemCompA == JObj([source_id |-> JStr("chunk:abc"), name |-> JStr("Comp A")])
ItemCompB == JObj([source_id |-> JStr("chunk:def"), name |-> JNum(0),
                   ticker |-> JStr("CMPB"), score |-> JNum(One)])

CompItems == {ItemBadFormat, ItemNotAChunk, ItemNoSourceId, ItemCompA, ItemCompB}

CompLists == {JList(l) : l \in SeqsUpTo(CompItems, MaxComps)}

\* well-formed payloads with every comps_used list
CorePayloads ==
    [conclusion : {JStr("fair")},
     implied_multiple : {JNull, JNum(Dec(64, 10) + 1)},
     range : {JNull, JList(<<JNum(Dec(58, 10)), JNum(Dec(69, 10))>>),
              JList(<<JNum(Dec(8, 1) + 2), JNum(Dec(6, 1) - 1)>>)},
     reasoning : {JStr("Backed by comps")},
     comps_used : CompLists,
     risk_flags : {JNull, JList(<<JStr("fx-risk")>>), JList(<<JStr("no_citable_evidence")>>)},
     confidence : {JNull, JNum(Dec(7, 10)), JNum(Dec(15, 10)), JNum(-Dec(2, 10))}]

\* malformed numbers and lists, with no, one and two citations
EdgePayloads ==
    [conclusion : {JNull},
     implied_multiple : {JNull, JNum(Dec(73, 10)), JStr("6.5"), JStr("abc"), JNaN, JBig},
     range : {JList(<<JNum(Dec(6, 1)), JNum(Dec(8, 1))>>),
              JList(<<JStr("nan"), JNum(Dec(3, 1))>>),
              JList(<<JNum(Dec(3, 1)), JNaN>>),
              JList(<<JNull, JStr("abc")>>),
              JList(<<JNum(Dec(1, 1)), JNum(Dec(2, 1)), JNum(Dec(3, 1))>>),
              JList(<<JNum(Dec(9, 1)), JBig>>),
              JStr("6-8")},
     reasoning : {JNull},
     comps_used : {JNull, JStr("chunk:abc"), JList(<<ItemCompA>>),
                   JList(<<ItemBadFormat, ItemCompB, ItemCompA>>)},
     risk_flags : {JList(<<>>), JStr("x"), JNum(Dec(5, 1)), JBool(TRUE),
                   JList(<<JStr("fx-risk"), JNull, JStr("fx-risk"), JNum(One), JStr("1")>>),
                   JList(<<JStr("no_citable_evidence"), JStr("no_citable_evidence")>>)},
     confidence : {JNum(Dec(9, 10)), JNum(Dec(3, 10)), JStr("0.7"), JStr("high"),
                   JBool(TRUE), JNaN, JBig, JList(<<>>)}]

\* conclusion and reasoning of every type
TextPayloads ==
    [conclusion : {JNull, JStr("cheap"), JStr("bullish"), JNum(Dec(5, 1)), JBool(FALSE)},
     implied_multiple : {JNum(Dec(73, 10))},
     range : {JList(<<JNum(Dec(6, 1)), JNum(Dec(8, 1))>>)},
     reasoning : {JNull, JStr("Sample reasoning"), JNum(Dec(3, 1)), JList(<<>>)},
     comps_used : {JList(<<ItemBadFormat, ItemNotAChunk>>), JList(<<ItemCompA, ItemCompB>>)},
     risk_flags : {JList(<<>>)},
     confidence : {JNum(Dec(9, 10))}]

Payloads == CorePayloads \cup EdgePayloads \cup TextPayloads

\* baseline multiples: 6, 0 (ebitda is 0), 1/3, 0.2 and -2
Baselines == {Dec(6, 1), 0, Dec(1, 3), Dec(2, 10), -Dec(2, 1)}

NotCalled == [st |-> "none", val |-> JNull]
NoResponse == [status |-> 0, detail |-> "", body |-> JNull]
NoDeal == [price |-> 0, ebitda |-> 0]

\* the outbound calls of a request
Backends == {"embedding", "remote", "local", "rerank", "triage", "synthesis"}

\* settings with no key, url or provider set
NoSettings == [openai_api_key |-> FALSE, deepseek_api_key |-> FALSE,
               supabase |-> FALSE, rerank_provider |-> "none",
               cohere_api_key |-> FALSE, bge_rerank_url |-> FALSE]
NoExc == [type |-> "", msg |-> ""]

\* no backend call has been issued
NoCalls == [b \in Backends |-> 0]

\* retrieval and reasoning have not run
PipelineIdle ==
    /\ settings = NoSettings
    /\ db = FALSE
    /\ embeddings = NotCalled
    /\ supabase_hits = NotCalled
    /\ local_hits = NotCalled
    /\ chunk_hits = <<>>
    /\ reranked = NotCalled
    /\ baseline = JNull
    /\ complexity = ""
    /\ deepseek_response = NotCalled
    /\ deepseek_payload = JNull
    /\ triage_plan = JNull
    /\ escalate_to_gpt = FALSE
    /\ llm_response = NotCalled
    /\ final_payload = JNull
    /\ calls = NoCalls

\* settings.llm_max_concurrency and settings.rerank_max_concurrency, scaled
\* down so that a handful of requests contend for the permits
llm_max_concurrency == 1

rerank_max_concurrency == 1

\* asyncio.Semaphore(value): the counter and the queue of waiting tasks
Semaphore(value) == [value |-> value, waiters |-> <<>>]

\* the keys the caller of the cache uses
Keys == {"a", "b", "c"}

\* nothing has been cached yet: per key the operation and the time of its
\* last set, the operation of its last use and the value last set
NoGhost == [ops |-> 0,
            used_at |-> [k \in Keys |-> 0],
            set_op |-> [k \in Keys |-> 0],
            set_at |-> [k \in Keys |-> -1],
            value |-> [k \in Keys |-> 0]]

\* no cache operation has run yet
NoOp == [op |-> "", key |-> "", at |-> 0, hit |-> FALSE, ret |-> 0, value |-> 0,
         evicted |-> {}]

\* the cache is empty and no object exists
CacheIdle ==
    /\ _store = <<>>
    /\ heap = <<>>
    /\ refs = <<>>
    /\ ghost = NoGhost
    /\ last_op = NoOp

\* no request is in flight
ServerIdle ==
    /\ tasks = <<>>
    /\ llm_sem = Semaphore(llm_max_concurrency)
    /\ rerank_sem = Semaphore(rerank_max_concurrency)
    /\ now = 0

-----------------------------------------------------------------------------
(* The sanitizer called directly, then called again on its own result *)

InitSanitize ==
    /\ pc = "call"
    /\ payload \in Payloads
    /\ baseline_multiple \in Baselines
    /\ retrieval_required \in BOOLEAN
    /\ retrieval_hits \in 0..MaxHits
    /\ first = NotCalled
    /\ second = NotCalled
    /\ question = ""
    /\ comps = <<>>
    /\ raw_output = JNull
    /\ sanitize_calls = 0
    /\ deal = NoDeal
    /\ analysis = JNull
    /\ recovered = FALSE
    /\ exc = NoExc
    /\ response = NoResponse
    /\ PipelineIdle
    /\ ServerIdle /\ CacheIdle

\* result = sanitize_analysis_payload(payload, ...)
Sanitize ==
    /\ pc = "call"
    /\ first' = sanitize_analysis_payload(payload, baseline_multiple,
                                          retrieval_required, retrieval_hits)
    /\ pc' = IF IsOk(first') THEN "returned" ELSE "raised"
    /\ UNCHANGED <<payload, baseline_multiple, retrieval_required, retrieval_hits,
                   second, requestVars>>
    /\ UNCHANGED <<pipelineVars, serverVars, cacheVars>>

\* sanitize_analysis_payload(result, ...) with the same arguments
Resanitize ==
    /\ pc = "returned"
    /\ second' = sanitize_analysis_payload(first.val, baseline_multiple,
                                           retrieval_required, retrieval_hits)
    /\ pc' = "resanitized"
    /\ UNCHANGED <<payload, baseline_multiple, retrieval_required, retrieval_hits,
                   first, requestVars>>
    /\ UNCHANGED <<pipelineVars, serverVars, cacheVars>>

NextSanitize == Sanitize \/ Resanitize

SpecSanitize == InitSanitize /\ [][NextSanitize]_vars

-----------------------------------------------------------------------------
(* Strings *)

UpperLetters == "ABCDEFGHIJKLMNOPQRSTUVWXYZ"
LowerLetters == "abcdefghijklmnopqrstuvwxyz"

\* one character of s.lower()
LowerChar(c) ==
    IF \E i \in 1..26 : SubSeq(UpperLetters, i, i) = c
    THEN LET i == CHOOSE j \in 1..26 : SubSeq(UpperLetters, j, j) = c
         IN SubSeq(LowerLetters, i, i)
    ELSE c

\* s.lower()
RECURSIVE Lower(_)
Lower(s) ==
    IF Len(s) <= 1 THEN LowerChar(s)
    ELSE LET half == Len(s) \div 2
         IN Lower(SubSeq(s, 1, half)) \o Lower(SubSeq(s, half + 1, Len(s)))

\* term in text
Contains(text, term) ==
    \E i \in 1..(Len(text) - Len(term) + 1) : SubSeq(text, i, i + Len(term) - 1) = term

\* s.strip(), for blanks
RECURSIVE Strip(_)
Strip(s) ==
    IF s = "" THEN ""
    ELSE IF SubSeq(s, 1, 1) = " " THEN Strip(SubSeq(s, 2, Len(s)))
    ELSE IF SubSeq(s, Len(s), Len(s)) = " " THEN Strip(SubSeq(s, 1, Len(s) - 1))
    ELSE s

\* list(v): a list itself, the characters of a string, TypeError for a scalar
PyList(v) ==
    CASE v.t = "list" -> v
      [] v.t = "str" -> JList([i \in 1..Len(v.s) |-> JStr(SubSeq(v.s, i, i))])
      [] OTHER -> Exc("TypeError")

-----------------------------------------------------------------------------
(* app/services/analyzer.py *)

_RETRIEVAL_HARD_TERMS ==
    {"comp", "compare", "fx", "eur", "portfolio", "multi-year", "multi year",
     "2025", "2026", "2027", "scenario", "sensitivity"}

\* _should_require_retrieval(question)
_should_require_retrieval(q) ==
    IF q = "" THEN FALSE
    ELSE \E term \in _RETRIEVAL_HARD_TERMS : Contains(Lower(q), term)

\* the citation built from one chunk, as model_dump() returns it
FallbackCitation(comp) ==
    LET chunk_id == IF Truthy(DictGet(comp, "chunk_id"))
                    THEN DictGet(comp, "chunk_id") ELSE DictGet(comp, "id")
        source_name == IF Truthy(DictGet(comp, "source"))
                       THEN DictGet(comp, "source")
                       ELSE DictGet(comp["meta"].o, "section")
    IN JObj([source_id |-> JStr("chunk:" \o PyStr(chunk_id)),
             name |-> IF Truthy(source_name) THEN source_name ELSE JNull,
             ticker |-> JNull])

\* the loop of _fallback_citations: acc grows until the limit or the end
RECURSIVE FallbackLoop(_, _, _)
FallbackLoop(cs, acc, limit) ==
    IF cs = <<>> THEN acc
    ELSE LET comp == Head(cs)
             chunk_id == IF Truthy(DictGet(comp, "chunk_id"))
                         THEN DictGet(comp, "chunk_id") ELSE DictGet(comp, "id")
         IN IF ~Truthy(chunk_id) THEN FallbackLoop(Tail(cs), acc, limit)
            ELSE LET citations == Append(acc, FallbackCitation(comp))
                 IN IF Len(citations) >= limit THEN citations
                    ELSE FallbackLoop(Tail(cs), citations, limit)

\* default of the limit parameter
FallbackLimit == 3

\* _fallback_citations(comps)
_fallback_citations(cs) == FallbackLoop(cs, <<>>, FallbackLimit)

\* lines 86-93: the candidate rewritten with the fallback citations, or the
\* TypeError of list(risk_flags)
InjectFallback(raw, fallback) ==
    LET held == IF Truthy(raw.risk_flags) THEN raw.risk_flags ELSE JList(<<>>)
        risk_flags == PyList(held)
        injected == JStr("fallback_citations_injected")
        flags == IF \E i \in 1..Len(risk_flags.l) : risk_flags.l[i] = injected
                 THEN risk_flags.l ELSE Append(risk_flags.l, injected)
        confidence == IF raw.confidence.t = "null" \/ FGt(raw.confidence, JNum(Dec(6, 10)))
                      THEN JNum(Dec(55, 100)) ELSE raw.confidence
    IN IF risk_flags.t = "raise" THEN risk_flags
       ELSE [raw EXCEPT !.comps_used = JList(fallback),
                        !.risk_flags = JList(flags),
                        !.confidence = confidence]

\* the values of the Conclusion literal (schemas.py)
Conclusions == {"cheap", "fair", "rich", "expensive", "uncertain", "undetermined"}

\* CompCitation validated from a sanitized citation: absent name/ticker are None
ValidateCitation(c) ==
    JObj([source_id |-> c.o["source_id"],
          name |-> DictGet(c.o, "name"),
          ticker |-> DictGet(c.o, "ticker")])

\* AnalysisV1.model_validate(sanitized): the model, or ValidationError (a
\* ValueError) when conclusion is outside the literal; _clean_risk_flags strips
\* every flag
model_validate(sanitized) ==
    IF sanitized.conclusion.s \notin Conclusions THEN Exc("ValueError")
    ELSE [sanitized EXCEPT
            !.comps_used = JList([i \in 1..Len(sanitized.comps_used.l) |->
                                    ValidateCitation(sanitized.comps_used.l[i])]),
            !.risk_flags = JList([i \in 1..Len(sanitized.risk_flags.l) |->
                                    JStr(Strip(sanitized.risk_flags.l[i].s))])]

-----------------------------------------------------------------------------
(* Inputs of one /analyze request *)

\* most chunks get_similar_chunks returns
MaxChunks == 4

ChunkA == [chunk_id |-> JStr("a"), source |-> JStr("10-K"), meta |-> JObj([section |-> JStr("MD&A")])]
ChunkB == [chunk_id |-> JNum(Dec(7, 1)), source |-> JNull, meta |-> JObj([section |-> JStr("Risk")])]
ChunkNoId == [chunk_id |-> JNull, source |-> JStr("memo"), meta |-> JObj(<<>>)]
ChunkZeroId == [chunk_id |-> JNum(0), source |-> JNull, meta |-> JObj(<<>>)]

Chunks == {ChunkA, ChunkB, ChunkNoId, ChunkZeroId}

ChunkLists == SeqsUpTo(Chunks, MaxChunks)

Questions == {"", "Is this valuation reasonable?", "EUR exposure vs peers?"}

\* coerced deals: price 12 with ebitda 36 (a multiple of 1/3) and with ebitda 0
Deals == {[price |-> 12, ebitda |-> 36], [price |-> 12, ebitda |-> 0]}

\* payloads analyze_valuation returns: the baseline or a coerced backend reply,
\* whose numbers are floats and whose other fields are whatever the reply held
Candidates ==
    [conclusion : {JStr("fair"), JStr("bullish")},
     implied_multiple : {JNum(Dec(73, 10))},
     range : {JList(<<JNum(Dec(6, 1)), JNum(Dec(8, 1))>>)},
     reasoning : {JStr("Baseline multiple heuristic derived from price/EBITDA.")},
     comps_used : {JList(<<>>), JList(<<ItemCompA>>),
                   JList(<<ItemBadFormat, ItemNotAChunk>>)},
     risk_flags : {JList(<<>>), JList(<<JStr("fallback_citations_injected")>>),
                   JList(<<JStr(" fallback_citations_injected")>>),
                   JStr("fx"), JNum(Dec(5, 1))},
     confidence : {JNum(Dec(5, 10)), JNum(Dec(58, 100)), JNum(Dec(9, 10)), JNaN}]

-----------------------------------------------------------------------------
(* POST /analyze for an existing deal *)

Init ==
    /\ pc = "start"
    /\ payload = JNull
    /\ baseline_multiple = 0
    /\ retrieval_required = FALSE
    /\ retrieval_hits = 0
    /\ first = NotCalled
    /\ second = NotCalled
    /\ question \in Questions
    /\ comps = <<>>
    /\ raw_output = JNull
    /\ sanitize_calls = 0
    /\ deal \in Deals
    /\ analysis = JNull
    /\ recovered = FALSE
    /\ exc = NoExc
    /\ response = NoResponse
    /\ PipelineIdle
    /\ ServerIdle /\ CacheIdle

\* analyzer.py 56-65: the lexicon signal, retrieval, the hit count
Retrieve ==
    /\ pc = "start"
    /\ \E cs \in ChunkLists :
         /\ comps' = cs
         /\ retrieval_hits' = Len(cs)
         /\ retrieval_required' = (_should_require_retrieval(question) \/ Len(cs) > 0)
    /\ pc' = "reason"
    /\ UNCHANGED <<payload, baseline_multiple, first, second, question, raw_output,
                   sanitize_calls, deal, analysis, recovered, exc, response>>
    /\ UNCHANGED <<pipelineVars, serverVars, cacheVars>>

\* analyzer.py 67-73: the candidate from analyze_valuation, the baseline multiple
Reason ==
    /\ pc = "reason"
    /\ \E c \in Candidates : raw_output' = c
    /\ baseline_multiple' = IF deal.ebitda > 0 THEN (deal.price * One) \div deal.ebitda ELSE 0
    /\ pc' = "sanitize"
    /\ UNCHANGED <<payload, retrieval_required, retrieval_hits, first, second, question,
                   comps, sanitize_calls, deal, analysis, recovered, exc, response>>
    /\ UNCHANGED <<pipelineVars, serverVars, cacheVars>>

\* analyzer.py 75-82: the first sanitize call
SanitizeCandidate ==
    /\ pc = "sanitize"
    /\ first' = sanitize_analysis_payload(raw_output, baseline_multiple,
                                          retrieval_required, retrieval_hits)
    /\ sanitize_calls' = sanitize_calls + 1
    /\ IF IsOk(first') THEN pc' = "validate" /\ exc' = exc
       ELSE IF first'.st = "ValueError"
       THEN pc' = "except" /\ exc' = exc
       ELSE pc' = "raised" /\ exc' = [type |-> first'.st, msg |-> ""]
    /\ UNCHANGED <<payload, baseline_multiple, retrieval_required, retrieval_hits,
                   second, question, comps, raw_output, deal, analysis, recovered,
                   response>>
    /\ UNCHANGED <<pipelineVars, serverVars, cacheVars>>

\* analyzer.py 82-99: the except branch
Recover ==
    /\ pc = "except"
    /\ LET fallback == _fallback_citations(comps)
           rewritten == InjectFallback(raw_output, fallback)
       IN IF fallback = <<>>
          THEN /\ exc' = [type |-> "ValueError", msg |-> "retrieval_hits_without_citations"]
               /\ pc' = "raised"
               /\ UNCHANGED <<raw_output, second, sanitize_calls, recovered>>
          ELSE IF "t" \in DOMAIN rewritten
          THEN /\ exc' = [type |-> rewritten.e, msg |-> ""]
               /\ pc' = "raised"
               /\ raw_output' = [raw_output EXCEPT !.comps_used = JList(fallback)]
               /\ UNCHANGED <<second, sanitize_calls, recovered>>
          ELSE /\ raw_output' = rewritten
               /\ second' = sanitize_analysis_payload(rewritten, baseline_multiple,
                                                      retrieval_required, retrieval_hits)
               /\ sanitize_calls' = sanitize_calls + 1
               /\ recovered' = TRUE
               /\ IF IsOk(second') THEN pc' = "validate" /\ exc' = exc
                  ELSE pc' = "raised" /\ exc' = [type |-> second'.st, msg |-> ""]
    /\ UNCHANGED <<payload, baseline_multiple, retrieval_required, retrieval_hits,
                   first, question, comps, deal, analysis, response>>
    /\ UNCHANGED <<pipelineVars, serverVars, cacheVars>>

\* analyzer.py 101-113: schema validation, then analyze_core returns
Validate ==
    /\ pc = "validate"
    /\ LET sanitized == IF recovered THEN second.val ELSE first.val
           model == model_validate(sanitized)
       IN IF "t" \in DOMAIN model
          THEN /\ exc' = [type |-> model.e, msg |-> "validation error for AnalysisV1"]
               /\ pc' = "raised"
               /\ UNCHANGED analysis
          ELSE /\ analysis' = model
               /\ pc' = "enforce"
               /\ UNCHANGED exc
    /\ UNCHANGED <<payload, baseline_multiple, retrieval_required, retrieval_hits,
                   first, second, question, comps, raw_output, sanitize_calls, deal,
                   recovered, response>>
    /\ UNCHANGED <<pipelineVars, serverVars, cacheVars>>

EvidenceRequired == "evidence_required: retrieval_hits>0 but comps_used is empty"

\* enforce_evidence_rule(analysis, retrieval_hits): the message it raises, or ""
enforce_evidence_rule(a, hits) ==
    IF hits > 0 /\ Len(a.comps_used.l) = 0 THEN EvidenceRequired ELSE ""

\* routers/analyze.py 29-63: the enforcer, then the analysis is returned (the
\* insert of the Analysis row and the log lines change nothing modelled here)
Enforce ==
    /\ pc = "enforce"
    /\ LET raised == enforce_evidence_rule(analysis, retrieval_hits)
       IN IF raised # ""
          THEN /\ exc' = [type |-> "ValueError", msg |-> raised]
               /\ response' = [status |-> 409, detail |-> raised, body |-> JNull]
          ELSE /\ response' = [status |-> 200, detail |-> "", body |-> analysis]
               /\ UNCHANGED exc
    /\ pc' = "done"
    /\ UNCHANGED <<payload, baseline_multiple, retrieval_required, retrieval_hits,
                   first, second, question, comps, raw_output, sanitize_calls, deal,
                   analysis, recovered>>
    /\ UNCHANGED <<pipelineVars, serverVars, cacheVars>>

\* routers/analyze.py 30-37: an exception left analyze_core; a ValueError
\* becomes 409, anything else the framework's 500
Reject ==
    /\ pc = "raised"
    /\ response' = IF exc.type = "ValueError"
                   THEN [status |-> 409, detail |-> exc.msg, body |-> JNull]
                   ELSE [status |-> 500, detail |-> "Internal Server Error", body |-> JNull]
    /\ pc' = "done"
    /\ UNCHANGED <<payload, baseline_multiple, retrieval_required, retrieval_hits,
                   first, second, question, comps, raw_output, sanitize_calls, deal,
                   analysis, recovered, exc>>
    /\ UNCHANGED <<pipelineVars, serverVars, cacheVars>>

Next == Retrieve \/ Reason \/ SanitizeCandidate \/ Recover \/ Validate \/ Enforce \/ Reject

Spec == Init /\ [][Next]_vars

-----------------------------------------------------------------------------
(* Properties of the sanitizer, checked under SpecSanitize *)

Flag == "no_citable_evidence"

\* an item of comps_used that is an object whose source_id is a "chunk:" string
WellFormedCitation(item) ==
    /\ item.t = "obj"
    /\ "source_id" \in DOMAIN item.o
    /\ item.o["source_id"].t = "str"
    /\ StartsWith(item.o["source_id"].s, "chunk:")

\* the items of the payload's comps_used, none when it is not a list
InputComps(p) == IF p.comps_used.t = "list" THEN p.comps_used.l ELSE <<>>

SurvivingInput(p) == SelectSeq(InputComps(p), WellFormedCitation)

\* number of occurrences of flag f in a list of strings
Count(flags, f) == Cardinality({i \in 1..Len(flags) : flags[i] = JStr(f)})

\* y is x rounded to 6 decimal places: on the 1e-6 grid and within half a step
Near6(x, y) == y % 3 = 0 /\ y - x \in {-1, 0, 1}

Called == first # NotCalled

\* C2: the sanitizer raises if and only if retrieval_required, retrieval_hits > 0
\* and no well-formed citation survives; for every other payload it returns.
C2_RaisesOnlyOnEvidenceFailure ==
    Called => (~IsOk(first) <=> (/\ retrieval_required
                                 /\ retrieval_hits > 0
                                 /\ SurvivingInput(payload) = <<>>))

\* C3: in every result, comps_used is empty if and only if risk_flags contains
\* "no_citable_evidence", and the flag never occurs more than once.
C3_FlagIffNoCitations ==
    (Called /\ IsOk(first)) =>
        /\ (first.val.comps_used.l = <<>>) <=> (Count(first.val.risk_flags.l, Flag) = 1)
        /\ Count(first.val.risk_flags.l, Flag) <= 1

\* C4 as stated: with an empty comps_used the result has implied_multiple = b,
\* range = [b - 0.5, b + 0.5] and confidence <= 0.5.
C4_GuardrailExactBaseline ==
    (Called /\ IsOk(first) /\ first.val.comps_used.l = <<>>) =>
        /\ first.val.implied_multiple = JNum(baseline_multiple)
        /\ first.val.range = JList(<<JNum(baseline_multiple - (One \div 2)),
                                     JNum(baseline_multiple + (One \div 2))>>)
        /\ FLe(first.val.confidence, JNum(One \div 2))

\* C4 amended: with an empty comps_used the result has implied_multiple = b
\* rounded to 6 places, range = the two numbers max(0, b - 0.5) and b + 0.5
\* rounded to 6 places, smaller first, and 0 <= confidence <= 0.5, whatever the
\* payload carried.
C4_GuardrailFlooredBaseline ==
    (Called /\ IsOk(first) /\ first.val.comps_used.l = <<>>) =>
        LET b == baseline_multiple
            lo == IF b - (One \div 2) < 0 THEN 0 ELSE b - (One \div 2)
            hi == b + (One \div 2)
            r == first.val.range.l
        IN /\ first.val.implied_multiple.t = "num"
           /\ Near6(b, first.val.implied_multiple.n)
           /\ Len(r) = 2 /\ r[1].t = "num" /\ r[2].t = "num"
           /\ Near6(IF lo <= hi THEN lo ELSE hi, r[1].n)
           /\ Near6(IF lo <= hi THEN hi ELSE lo, r[2].n)
           /\ FLe(JNum(0), first.val.confidence)
           /\ FLe(first.val.confidence, JNum(One \div 2))

\* the guardrail overrode a payload that carried its own numbers, with a
\* baseline below 0.5
C4_Witness ==
    /\ Called /\ IsOk(first) /\ first.val.comps_used.l = <<>>
    /\ baseline_multiple = Dec(2, 10)
    /\ payload.implied_multiple = JNum(Dec(73, 10))
    /\ payload.confidence = JNum(Dec(9, 10))
    /\ first.val.range = JList(<<JNum(0), JNum(Dec(7, 10))>>)

\* C5: in every result range[0] <= range[1] and 0 <= confidence <= 1.
C5_RangeOrderedConfidenceBounded ==
    (Called /\ IsOk(first)) =>
        /\ FLe(first.val.range.l[1], first.val.range.l[2])
        /\ FLe(JNum(0), first.val.confidence)
        /\ FLe(first.val.confidence, JNum(One))

\* C6: sanitizing a result again with the same arguments returns the same result.
C6_Idempotent == (pc = "resanitized") => second = first

\* the second call ran on a result that differs from the payload it came from
C6_Witness ==
    /\ pc = "resanitized" /\ IsOk(second)
    /\ first.val # payload
    /\ first.val.comps_used.l # <<>>
    /\ payload.range = JList(<<JNum(Dec(8, 1) + 2), JNum(Dec(6, 1) - 1)>>)

\* a second call on a result the guardrail produced
C6_WitnessGuardrail ==
    /\ pc = "resanitized" /\ IsOk(second)
    /\ first.val.comps_used.l = <<>>
    /\ baseline_multiple = -Dec(2, 1)

\* C7: the result's comps_used is the subsequence, in order, of the input items
\* that are objects with a "chunk:" string source_id; each entry carries only
\* source_id and optionally name and ticker.
C7_CitationsAreFilteredInput ==
    (Called /\ IsOk(first)) =>
        LET kept == SurvivingInput(payload)
            out == first.val.comps_used.l
        IN /\ Len(out) = Len(kept)
           /\ \A i \in 1..Len(out) :
                /\ out[i].t = "obj"
                /\ out[i].o["source_id"] = kept[i].o["source_id"]
                /\ {"source_id"} \subseteq DOMAIN out[i].o
                /\ DOMAIN out[i].o \subseteq {"source_id", "name", "ticker"}
                /\ \A k \in DOMAIN out[i].o : out[i].o[k].t = "str"

\* a string item and an extra key were dropped, two citations kept in order
C7_Witness ==
    /\ Called /\ IsOk(first)
    /\ payload.comps_used = JList(<<ItemBadFormat, ItemCompB, ItemCompA>>)
    /\ first.val.comps_used =
         JList(<<JObj([source_id |-> JStr("chunk:def"), ticker |-> JStr("CMPB")]),
                 JObj([source_id |-> JStr("chunk:abc"), name |-> JStr("Comp A")])>>)

\* the payload carries a number for implied_multiple, two numbers for range and
\* a number for confidence
NumericPayload(p) ==
    /\ p.implied_multiple.t = "num"
    /\ p.range.t = "list" /\ Len(p.range.l) = 2
    /\ p.range.l[1].t = "num" /\ p.range.l[2].t = "num"
    /\ p.confidence.t = "num"

\* the payload's confidence clamped to [0, 1]
Clamped(c) == IF c < 0 THEN 0 ELSE IF c > One THEN One ELSE c

\* C8 as stated: when a citation survives, implied_multiple and range are those
\* of the payload (range only reordered), confidence is the payload's clamped
\* to [0,1], and no "no_citable_evidence" flag is added.
C8_NoGuardrailExact ==
    (Called /\ IsOk(first) /\ first.val.comps_used.l # <<>> /\ NumericPayload(payload)) =>
        LET a == payload.range.l[1].n
            c == payload.range.l[2].n
        IN /\ first.val.implied_multiple = payload.implied_multiple
           /\ first.val.range = JList(<<JNum(IF a <= c THEN a ELSE c),
                                        JNum(IF a <= c THEN c ELSE a)>>)
           /\ first.val.confidence = JNum(Clamped(payload.confidence.n))
           /\ (Count(first.val.risk_flags.l, Flag) > 0
                  => \E i \in 1..Len(payload.risk_flags.l) :
                        payload.risk_flags.l[i] = JStr(Flag))

\* C8 amended: when a citation survives and the payload carries numbers,
\* implied_multiple and range are those of the payload rounded to 6 decimal
\* places (range reordered so low <= high), confidence is the payload's clamped
\* to [0,1], not capped at 0.5, and the flag is in the result only if the
\* payload's risk_flags already held it.
C8_NoGuardrailRounded ==
    (Called /\ IsOk(first) /\ first.val.comps_used.l # <<>> /\ NumericPayload(payload)) =>
        LET a == payload.range.l[1].n
            c == payload.range.l[2].n
            r == first.val.range.l
        IN /\ first.val.implied_multiple.t = "num"
           /\ Near6(payload.implied_multiple.n, first.val.implied_multiple.n)
           /\ Len(r) = 2 /\ r[1].t = "num" /\ r[2].t = "num"
           /\ Near6(IF a <= c THEN a ELSE c, r[1].n)
           /\ Near6(IF a <= c THEN c ELSE a, r[2].n)
           /\ first.val.confidence = JNum(Clamped(payload.confidence.n))
           /\ (Count(first.val.risk_flags.l, Flag) > 0
                  => \/ payload.risk_flags = JStr(Flag)
                     \/ /\ payload.risk_flags.t = "list"
                        /\ \E i \in 1..Len(payload.risk_flags.l) :
                              payload.risk_flags.l[i] = JStr(Flag))

\* two citations kept, a reversed range reordered, confidence 0.7 kept above 0.5
C8_Witness ==
    /\ Called /\ IsOk(first)
    /\ Len(first.val.comps_used.l) = 2
    /\ payload.range = JList(<<JNum(Dec(8, 1) + 2), JNum(Dec(6, 1) - 1)>>)
    /\ first.val.range = JList(<<JNum(Dec(6, 1)), JNum(Dec(8, 1) + 3)>>)
    /\ first.val.confidence = JNum(Dec(7, 10))
    /\ baseline_multiple = Dec(6, 1)
    /\ first.val.implied_multiple = JNum(Dec(64, 10))

\* C9: the conclusion of every result is one of the six schema values.
C9_ConclusionInSchema ==
    (Called /\ IsOk(first)) => first.val.conclusion.s \in Conclusions

-----------------------------------------------------------------------------
(* Properties of one /analyze request, checked under Spec *)

\* C1: with retrieval_hits >= 1, what analyze_core returns and what the caller
\* receives with status 200 has a non-empty comps_used, and the enforcer in
\* the router never raises.
C1_EvidenceRule ==
    /\ (analysis # JNull /\ retrieval_hits >= 1) => analysis.comps_used.l # <<>>
    /\ (response.status = 200 /\ retrieval_hits >= 1) => response.body.comps_used.l # <<>>
    /\ response.detail # EvidenceRequired

\* hits were retrieved, the candidate cited none, the recovery ran and the
\* analysis was returned with citations
C1_Witness ==
    /\ response.status = 200
    /\ retrieval_hits >= 1
    /\ raw_output.conclusion = JStr("fair")
    /\ recovered
    /\ Len(response.body.comps_used.l) >= 1

\* hits were retrieved, none carried an id, and the request ended in the 409
C1_WitnessError ==
    /\ response.status = 409
    /\ retrieval_hits >= 1
    /\ response.detail = "retrieval_hits_without_citations"

\* the chunk has a usable chunk_id
CarriesId(comp) == Truthy(DictGet(comp, "chunk_id"))

\* C10: when the first sanitization raises the evidence failure and a chunk
\* carries an id, analyze_core sanitizes exactly twice and returns a result
\* whose comps_used cites the first (at most 3) chunks that carry an id, in
\* retrieval order, and whose risk_flags holds "fallback_citations_injected"
\* exactly once.
C10_OneShotRecovery ==
    (/\ pc = "done"
     /\ first.st = "ValueError"
     /\ \E i \in 1..Len(comps) : CarriesId(comps[i])) =>
        /\ response.status = 200
        /\ sanitize_calls = 2
        /\ LET ids == SelectSeq(comps, CarriesId)
               n == IF Len(ids) < 3 THEN Len(ids) ELSE 3
               cited == response.body.comps_used.l
           IN /\ Len(cited) = n
              /\ n >= 1
              /\ \A i \in 1..n :
                    cited[i].o["source_id"] = JStr("chunk:" \o PyStr(ids[i]["chunk_id"]))
        /\ Count(response.body.risk_flags.l, "fallback_citations_injected") = 1

\* C11: whenever the recovery re-sanitized and the request returned a payload,
\* the confidence of that payload is at most 0.55, whatever confidence the
\* candidate carried.
C11_FallbackConfidenceCapped ==
    (response.status = 200 /\ recovered) =>
        FLe(response.body.confidence, JNum(Dec(55, 100)))

\* the sanitizer raised its evidence failure on the candidate
EvidenceFailed == first.st = "ValueError"

\* no retrieved chunk yields a fallback citation
NothingToCite == \A i \in 1..Len(comps) : ~CarriesId(comps[i])

\* C12: a finished request carries 409 exactly when the sanitizer's evidence
\* failure occurred and no citation could be synthesized; every other request
\* returns a payload.
C12_ConflictIffNoEvidence ==
    pc = "done" =>
        /\ response.status = 409 <=> (EvidenceFailed /\ NothingToCite)
        /\ response.status # 409 => response.status = 200

-----------------------------------------------------------------------------
(* app/services/consultant.py: the pure helpers of analyze_valuation *)

\* round(x, 2) on the grid: the nearest multiple of 0.01, a tie to the even one
Round2(i) ==
    LET step == One \div 100
        r == i % step
        down == i - r
    IN IF 2 * r < step THEN down
       ELSE IF 2 * r > step THEN down + step
       ELSE IF (down \div step) % 2 = 0 THEN down ELSE down + step

\* [c.get("name") for c in comps if c.get("name")]
RECURSIVE CompNames(_)
CompNames(cs) ==
    IF cs = <<>> THEN <<>>
    ELSE LET name == DictGet(Head(cs), "name")
         IN (IF Truthy(name) THEN <<name>> ELSE <<>>) \o CompNames(Tail(cs))

\* _heuristic_baseline(deal, comps); price and ebitda are the coerced floats
\* of the deal, whole numbers here, and 1e-9 stands in for a non-positive ebitda
_heuristic_baseline(d, cs) ==
    LET e == d.ebitda
        p == d.price
        multiple == IF e > 0 THEN (p * One) \div e ELSE p * One * 1000000000
        verdict == IF 8 * One <= multiple /\ multiple <= 12 * One THEN "fair"
                   ELSE IF multiple > 12 * One THEN "rich" ELSE "cheap"
    IN [conclusion |-> JStr(verdict),
        implied_multiple |-> JNum(Round2(multiple)),
        range |-> JList(<<PyMax(JNum(Round2(multiple - One)), JNum(0)),
                          JNum(Round2(multiple + One))>>),
        reasoning |-> JStr("Baseline multiple heuristic derived from price/EBITDA."),
        comps_used |-> JList(CompNames(cs)),
        risk_flags |-> JList(<<>>),
        confidence |-> JNum(Dec(5, 10))]

hard_terms ==
    {"compare", "versus", "vs", "portfolio", "multi", "scenario", "sensitivity",
     "synergy", "dilution", "dcf", "discounted cash", "merger", "leveraged", "fx",
     "currency", "hedge", "tax", "rag", "retrieval"}

\* text.count("?")
QuestionMarks(text) == Cardinality({i \in 1..Len(text) : SubSeq(text, i, i) = "?"})

\* len(text.split()): the maximal runs of non-blank characters
WordCount(text) ==
    Cardinality({i \in 1..Len(text) :
                    /\ SubSeq(text, i, i) # " "
                    /\ (i = 1 \/ SubSeq(text, i - 1, i - 1) = " ")})

\* the long-form threshold of _classify_request
LongFormWords == 40

\* _classify_request with the deal test before the lexicon and the lexicon
\* ignored when the deal is complete
_classify_request_DealOnly(q, d) ==
    IF d.price = 0 \/ d.ebitda = 0 \/ d.industry = "" THEN "hard"
    ELSE IF QuestionMarks(q) > 1 \/ WordCount(q) > LongFormWords THEN "hard"
    ELSE "easy"

\* _classify_request(question, deal, comps); comps is not read
_classify_request(q, d) ==
    LET text == Lower(q)
    IN IF \E term \in hard_terms : Contains(text, term) THEN "hard"
       ELSE IF d.price = 0 \/ d.ebitda = 0 \/ d.industry = "" THEN "hard"
       ELSE IF QuestionMarks(text) > 1 \/ WordCount(text) > LongFormWords THEN "hard"
       ELSE "easy"

\* the confidence below which a hard request escalates
EscalateBelow == Dec(55, 100)

\* _should_escalate that ignores the comps test
_should_escalate_ConfidenceOnly(cx, p, cs) ==
    IF cx # "hard" THEN FALSE
    ELSE IF p = JNull THEN TRUE
    ELSE LET confidence == DictGet(p, "confidence")
         IN confidence = JNull \/ FLt(confidence, JNum(EscalateBelow))

\* _should_escalate(complexity, payload, comps)
_should_escalate(cx, p, cs) ==
    IF cx # "hard" THEN FALSE
    ELSE IF p = JNull THEN TRUE
    ELSE LET confidence == DictGet(p, "confidence")
         IN IF confidence = JNull \/ FLt(confidence, JNum(EscalateBelow)) THEN TRUE
            ELSE IF ~Truthy(DictGet(p, "comps_used")) /\ cs = <<>> THEN TRUE
            ELSE FALSE

-----------------------------------------------------------------------------
(* Groups of variables a specification leaves at rest *)

sanitizerVars == <<payload, baseline_multiple, retrieval_required, retrieval_hits,
                   first, second>>

coreVars == <<raw_output, sanitize_calls, analysis, recovered, exc, response>>

retrievalVars == <<db, embeddings, supabase_hits, local_hits, chunk_hits, reranked>>

triageVars == <<deepseek_response, deepseek_payload, triage_plan, llm_response>>

SanitizerIdle ==
    /\ payload = JNull
    /\ baseline_multiple = 0
    /\ retrieval_required = FALSE
    /\ retrieval_hits = 0
    /\ first = NotCalled
    /\ second = NotCalled

CoreIdle ==
    /\ raw_output = JNull
    /\ sanitize_calls = 0
    /\ analysis = JNull
    /\ recovered = FALSE
    /\ exc = NoExc
    /\ response = NoResponse

RetrievalIdle ==
    /\ db = FALSE
    /\ embeddings = NotCalled
    /\ supabase_hits = NotCalled
    /\ local_hits = NotCalled
    /\ chunk_hits = <<>>
    /\ reranked = NotCalled

TriageIdle ==
    /\ deepseek_response = NotCalled
    /\ deepseek_payload = JNull
    /\ triage_plan = JNull
    /\ llm_response = NotCalled

-----------------------------------------------------------------------------
(* _should_escalate called on its own *)

\* a key the payload does not carry
Absent == [t |-> "absent"]

\* a dict with the keys whose value is given
DictOf(pairs) == [k \in {key \in DOMAIN pairs : pairs[key] # Absent} |-> pairs[k]]

EscalateConfidences ==
    {Absent, JNull, JNaN, JNum(Dec(4, 10)), JNum(Dec(55, 100) - 3), JNum(Dec(55, 100)),
     JNum(Dec(6, 10)), JNum(Dec(8, 10))}

EscalateCompsUsed ==
    {Absent, JNull, JList(<<>>), JList(<<JStr("x")>>), JList(<<JStr("A"), JStr("B")>>)}

\* the payloads _should_escalate is called with, and None
EscalatePayloads ==
    {JNull} \cup {DictOf([confidence |-> c, comps_used |-> u]) :
                    c \in EscalateConfidences, u \in EscalateCompsUsed}

\* a retrieved chunk as get_similar_chunks returns it
HitA == [chunk_id |-> JNum(One), text |-> JStr("Doc 1"), source |-> JStr("source A"),
         meta |-> JObj(<<>>)]
HitB == [chunk_id |-> JNum(2 * One), text |-> JStr("Doc 2"), source |-> JStr("source B"),
         meta |-> JObj(<<>>)]

InitEscalate ==
    /\ pc = "call"
    /\ complexity \in {"easy", "hard"}
    /\ final_payload \in EscalatePayloads
    /\ comps \in {<<>>, <<HitA>>}
    /\ escalate_to_gpt = FALSE
    /\ question = ""
    /\ deal = NoDeal
    /\ settings = NoSettings
    /\ baseline = JNull
    /\ calls = NoCalls
    /\ SanitizerIdle /\ CoreIdle /\ RetrievalIdle /\ TriageIdle /\ ServerIdle /\ CacheIdle

\* escalate_to_gpt = _should_escalate(complexity, final_payload, comps)
Escalate ==
    /\ pc = "call"
    /\ escalate_to_gpt' = _should_escalate(complexity, final_payload, comps)
    /\ pc' = "returned"
    /\ UNCHANGED <<sanitizerVars, coreVars, retrievalVars, triageVars, serverVars, cacheVars,
                   question, deal, comps, settings, baseline, complexity,
                   final_payload, calls>>

NextEscalate == Escalate

SpecEscalate == InitEscalate /\ [][NextEscalate]_vars

\* the payload carries no comps_used: the key is absent, None or empty
NoCompsUsed(p) == "comps_used" \notin DOMAIN p \/ p.comps_used \in {JNull, JList(<<>>)}

\* the payload's confidence is missing (absent or None) or a number below 0.55
LowConfidence(p) ==
    \/ "confidence" \notin DOMAIN p
    \/ p.confidence = JNull
    \/ (p.confidence.t = "num" /\ 100 * p.confidence.n < 55 * One)

\* C15: _should_escalate is False for a complexity other than "hard"; for
\* "hard" it is True exactly when the payload is absent, or its confidence is
\* missing or below 0.55, or it has no comps_used and comps is empty.
C15_EscalationPolicy ==
    pc = "returned" =>
        /\ complexity # "hard" => ~escalate_to_gpt
        /\ complexity = "hard" =>
              (escalate_to_gpt <=>
                  \/ final_payload = JNull
                  \/ (final_payload # JNull /\ LowConfidence(final_payload))
                  \/ (final_payload # JNull /\ NoCompsUsed(final_payload) /\ comps = <<>>))

\* test_should_escalate: ("hard", {"confidence": 0.8, "comps_used": []}, [])
\* escalates, on the comps test alone
C15_Witness ==
    /\ pc = "returned"
    /\ complexity = "hard"
    /\ final_payload = [confidence |-> JNum(Dec(8, 10)), comps_used |-> JList(<<>>)]
    /\ comps = <<>>
    /\ escalate_to_gpt

\* scenario E: ("hard", {confidence: 0.6, comps_used: ["x"]}, []) does not escalate
C15_WitnessNoEscalation ==
    /\ pc = "returned"
    /\ complexity = "hard"
    /\ final_payload = [confidence |-> JNum(Dec(6, 10)), comps_used |-> JList(<<JStr("x")>>)]
    /\ comps = <<>>
    /\ ~escalate_to_gpt

-----------------------------------------------------------------------------
(* _classify_request called on its own *)

\* a question of n words
RECURSIVE Words(_)
Words(n) ==
    IF n = 0 THEN "" ELSE IF n = 1 THEN "why"
    ELSE Words(n \div 2) \o " " \o Words(n - n \div 2)

ClassifyQuestions ==
    {"", "Is this valuation reasonable?", "Is it cheap? Is it rich?",
     "Is it cheap?  Or  not", "EUR exposure vs peers?", "COMPARE it to peers",
     "What is the leverage here?", "How would a Merger change it",
     Words(40), Words(41)}

\* coerced deals: a missing price or ebitda is 0.0, a missing industry is ""
ClassifyDeals == [price : {0, 12}, ebitda : {0, 3}, industry : {"", "SaaS"}]

InitClassify ==
    /\ pc = "call"
    /\ question \in ClassifyQuestions
    /\ deal \in ClassifyDeals
    /\ complexity = ""
    /\ comps = <<>>
    /\ settings = NoSettings
    /\ baseline = JNull
    /\ escalate_to_gpt = FALSE
    /\ final_payload = JNull
    /\ calls = NoCalls
    /\ SanitizerIdle /\ CoreIdle /\ RetrievalIdle /\ TriageIdle /\ ServerIdle /\ CacheIdle

\* complexity = _classify_request(question, deal, comps)
Classify ==
    /\ pc = "call"
    /\ complexity' = _classify_request(question, deal)
    /\ pc' = "returned"
    /\ UNCHANGED <<sanitizerVars, coreVars, retrievalVars, triageVars, serverVars, cacheVars,
                   question, deal, comps, settings, baseline, escalate_to_gpt,
                   final_payload, calls>>

NextClassify == Classify

SpecClassify == InitClassify /\ [][NextClassify]_vars

\* the question, read without regard to case, contains a term of the lexicon
HasHardTerm(q) == \E term \in hard_terms : Contains(Lower(q), term)

\* price, ebitda and industry are all present and truthy
DealComplete(d) == d.price # 0 /\ d.ebitda # 0 /\ d.industry # ""

\* C16: _classify_request returns "hard" whenever price, ebitda or industry is
\* missing or falsy, whatever the question; it returns "easy" exactly when the
\* question holds no lexicon term, the three fields are present, and the
\* question has at most one question mark and at most 40 words.
C16_Classification ==
    pc = "returned" =>
        /\ complexity \in {"easy", "hard"}
        /\ ~DealComplete(deal) => complexity = "hard"
        /\ complexity = "easy" <=>
              /\ ~HasHardTerm(question)
              /\ DealComplete(deal)
              /\ QuestionMarks(question) <= 1
              /\ WordCount(question) <= 40

\* a 40-word question on a complete deal is easy
C16_Witness ==
    /\ pc = "returned"
    /\ WordCount(question) = 40
    /\ DealComplete(deal)
    /\ complexity = "easy"

\* a 41-word question on a complete deal is hard
C16_WitnessLong ==
    /\ pc = "returned"
    /\ WordCount(question) = 41
    /\ DealComplete(deal)
    /\ complexity = "hard"

\* a plain question on a deal without industry is hard
C16_WitnessIncomplete ==
    /\ pc = "returned"
    /\ question = "Is this valuation reasonable?"
    /\ deal = [price |-> 12, ebitda |-> 3, industry |-> ""]
    /\ complexity = "hard"

-----------------------------------------------------------------------------
(* app/services/rerank.py and app/services/retrieve.py *)

\* an index of a rerank result as a Python int
Idx(v) == v.n \div One

\* [{"index": idx, "document": doc, "relevance_score": 0.0} for idx, doc in
\* enumerate(documents[:top_k])] with top_k = len(documents)
OriginalOrder(n) ==
    [i \in 1..n |-> [index |-> JNum((i - 1) * One), relevance_score |-> JNum(0)]]

\* the loop of _cohere_rerank and _bge_rerank over the results of the backend:
\* an item without index or with index >= len(documents) is skipped,
\* documents[idx] raises IndexError below -len(documents)
RECURSIVE RankItems(_, _)
RankItems(results, n) ==
    IF results = <<>> THEN Ok(<<>>)
    ELSE LET item == Head(results)
             idx == item.index
             rest == RankItems(Tail(results), n)
         IN IF idx = JNull \/ Idx(idx) >= n THEN rest
            ELSE IF Idx(idx) < -n THEN Raised("IndexError")
            ELSE IF ~IsOk(rest) THEN rest
            ELSE Ok(<<item>> \o rest.val)

\* rerank_documents issues an HTTP call: Cohere with a key, else BGE with a url
RerankIssuesCall(cfg) ==
    /\ cfg.rerank_provider # "none"
    /\ \/ (cfg.rerank_provider = "cohere" /\ cfg.cohere_api_key)
       \/ cfg.bge_rerank_url

\* rerank_documents(query, documents, top_k=len(documents)) for n documents,
\* given the outcome of the HTTP call it may issue
rerank_documents(cfg, n, outcome) ==
    IF n = 0 THEN Ok(<<>>)
    ELSE IF cfg.rerank_provider = "none" THEN Ok(OriginalOrder(n))
    ELSE IF cfg.rerank_provider = "cohere" /\ cfg.cohere_api_key
    THEN IF outcome.st = "HTTPError" THEN Raised("RerankError")
         ELSE IF ~IsOk(outcome) THEN outcome
         ELSE RankItems(outcome.val, n)
    ELSE IF ~cfg.bge_rerank_url THEN Ok(OriginalOrder(n))
    ELSE IF outcome.st = "HTTPError" THEN Ok(OriginalOrder(n))
    ELSE IF ~IsOk(outcome) THEN outcome
    ELSE LET ranked == RankItems(outcome.val, n)
         IN IF IsOk(ranked) /\ ranked.val = <<>> THEN Ok(OriginalOrder(n)) ELSE ranked

\* hits[idx].copy() with rerank_score set
Scored(hit, score) ==
    [k \in DOMAIN hit \cup {"rerank_score"} |-> IF k = "rerank_score" THEN score ELSE hit[k]]

\* the loop of _maybe_rerank over the reranked items (retrieve.py 223-230)
RECURSIVE OrderHits(_, _)
OrderHits(items, hs) ==
    IF items = <<>> THEN Ok(<<>>)
    ELSE LET item == Head(items)
             idx == item.index
             n == Len(hs)
             rest == OrderHits(Tail(items), hs)
         IN IF idx = JNull \/ Idx(idx) >= n THEN rest
            ELSE IF Idx(idx) < -n THEN Raised("IndexError")
            ELSE IF ~IsOk(rest) THEN rest
            ELSE LET pos == IF Idx(idx) >= 0 THEN Idx(idx) + 1 ELSE n + Idx(idx) + 1
                 IN Ok(<<Scored(hs[pos], item.relevance_score)>> \o rest.val)

\* _maybe_rerank(query_text, hits, use_rerank=...): the hits it returns, or the
\* exception that leaves it
_maybe_rerank(cfg, hs, use_rerank, outcome) ==
    IF ~use_rerank \/ hs = <<>> THEN Ok(hs)
    ELSE LET result == rerank_documents(cfg, Len(hs), outcome)
         IN IF ~IsOk(result) THEN Ok(hs)
            ELSE LET ordered == OrderHits(result.val, hs)
                 IN IF ~IsOk(ordered) THEN ordered
                    ELSE IF ordered.val # <<>> /\ Len(ordered.val) = Len(hs) THEN ordered
                    ELSE Ok(hs)

\* get_similar_chunks after embed_texts: "return []" on a failure or an empty
\* output, else on to the vector searches; with a retry of a failed call
EmbedNext_Retry(out) ==
    IF IsOk(out) /\ out.val # <<>> THEN "remote"
    ELSE IF IsOk(out) THEN "retrieved" ELSE "embed"

\* get_similar_chunks after embed_texts: "return []" on a failure or an empty
\* output, else on to the vector searches
EmbedNext(out) == IF IsOk(out) /\ out.val # <<>> THEN "remote" ELSE "retrieved"

\* the local search also runs when the remote search returned hits
LocalEligible_Always(hs, session) == session

\* "if not hits and db is not None"
LocalEligible(hs, session) == hs = <<>> /\ session

-----------------------------------------------------------------------------
(* app/services/triage.py and the stages of analyze_valuation *)

\* texts a reasoning backend returns
TextProse == "The deal looks fair."
TextList == "[1]"
TextPlan == "{\"route_suggestion\": \"hard\", \"confidence\": 0.9}"
TextWrappedPlan == "{\"triage_plan\": {\"missing_data\": [\"fx rates\"]}}"
TextBadPlan == "{\"triage_plan\": {\"route_suggestion\": \"medium\"}}"
TextPayload ==
    "{\"conclusion\": \"rich\", \"implied_multiple\": 13.5, \"range\": [15, 12], \"comps_used\": [\"Acme\"], \"risk_flags\": [\"fx\"], \"confidence\": 0.8}"
TextPayloadLow == "{\"conclusion\": \"cheap\", \"comps_used\": [], \"confidence\": 0.4}"
TextPayloadCited ==
    "{\"conclusion\": \"fair\", \"comps_used\": [{\"source_id\": \"chunk:1\"}], \"confidence\": 0.58}"
TextPayloadOdd ==
    "{\"conclusion\": \"bullish\", \"implied_multiple\": \"abc\", \"range\": [1], \"risk_flags\": 5, \"confidence\": null}"
TextPayloadNaN ==
    "{\"conclusion\": \"fair\", \"comps_used\": [\"Acme\"], \"confidence\": \"nan\"}"

\* json.loads(raw) for the texts above; any other text is not JSON
JsonLoads(raw) ==
    CASE raw = TextList -> JList(<<JNum(One)>>)
      [] raw = TextPlan ->
            JObj([route_suggestion |-> JStr("hard"), confidence |-> JNum(Dec(9, 10))])
      [] raw = TextWrappedPlan ->
            JObj([triage_plan |-> JObj([missing_data |-> JList(<<JStr("fx rates")>>)])])
      [] raw = TextBadPlan ->
            JObj([triage_plan |-> JObj([route_suggestion |-> JStr("medium")])])
      [] raw = TextPayload ->
            JObj([conclusion |-> JStr("rich"),
                  implied_multiple |-> JNum(Dec(135, 10)),
                  range |-> JList(<<JNum(15 * One), JNum(12 * One)>>),
                  comps_used |-> JList(<<JStr("Acme")>>),
                  risk_flags |-> JList(<<JStr("fx")>>),
                  confidence |-> JNum(Dec(8, 10))])
      [] raw = TextPayloadLow ->
            JObj([conclusion |-> JStr("cheap"), comps_used |-> JList(<<>>),
                  confidence |-> JNum(Dec(4, 10))])
      [] raw = TextPayloadCited ->
            JObj([conclusion |-> JStr("fair"),
                  comps_used |-> JList(<<JObj([source_id |-> JStr("chunk:1")])>>),
                  confidence |-> JNum(Dec(58, 100))])
      [] raw = TextPayloadOdd ->
            JObj([conclusion |-> JStr("bullish"), implied_multiple |-> JStr("abc"),
                  range |-> JList(<<JNum(One)>>), risk_flags |-> JNum(5 * One),
                  confidence |-> JNull])
      [] raw = TextPayloadNaN ->
            JObj([conclusion |-> JStr("fair"), comps_used |-> JList(<<JStr("Acme")>>),
                  confidence |-> JStr("nan")])
      [] OTHER -> Exc("JSONDecodeError")

\* the fields of TriagePlan (extra="forbid")
PlanFields ==
    {"objective", "required_comps", "missing_data", "queries", "risk_flags",
     "route_suggestion", "confidence"}

StrList(v) == v.t = "list" /\ \A i \in 1..Len(v.l) : v.l[i].t = "str"

\* TriagePlan.model_validate(v) succeeds
PlanValid(v) ==
    /\ v.t = "obj"
    /\ DOMAIN v.o \subseteq PlanFields
    /\ \A k \in DOMAIN v.o :
          CASE k = "objective" -> v.o[k].t \in {"null", "str"}
            [] k = "confidence" -> v.o[k].t \in {"null", "num"}
            [] k = "route_suggestion" ->
                  v.o[k] = JNull \/ (v.o[k].t = "str" /\ v.o[k].s \in {"easy", "hard"})
            [] OTHER -> StrList(v.o[k])

\* parse_triage_plan(raw): the plan, or the ValueError it raises
parse_triage_plan(raw) ==
    LET raw_str == IF Truthy(raw) THEN Strip(raw.s) ELSE ""
        data == JsonLoads(raw_str)
    IN IF raw_str = "" THEN Exc("ValueError")
       ELSE IF PlanValid(data) THEN data
       ELSE IF data.t = "raise" THEN Exc("ValueError")
       ELSE IF data.t = "obj" /\ "triage_plan" \in DOMAIN data.o
       THEN IF PlanValid(data.o["triage_plan"]) THEN data.o["triage_plan"]
            ELSE Exc("ValueError")
       ELSE Exc("ValueError")

\* d.get(key, default)
DictGetOr(d, key, default) == IF key \in DOMAIN d THEN d[key] ELSE default

\* float(value) inside try / except (TypeError, ValueError): the default on
\* those two, any other exception leaves
FloatOr(value, default) ==
    LET r == PyFloat(value)
    IN IF r.t = "raise" /\ r.e \in {"TypeError", "ValueError"} THEN default ELSE r

\* lo, hi = range_raw; (float(lo), float(hi)), the baseline's range when the
\* unpacking or a conversion raises TypeError, ValueError or IndexError
CoerceRange(range_raw, default) ==
    LET pair == CASE range_raw.t = "list" -> range_raw.l
                  [] range_raw.t = "str" ->
                        [i \in 1..Len(range_raw.s) |-> JStr(SubSeq(range_raw.s, i, i))]
                  [] OTHER -> <<>>
    IN IF Len(pair) # 2 THEN default
       ELSE LET lo_f == PyFloat(pair[1])
                hi_f == PyFloat(pair[2])
            IN IF lo_f.t = "raise"
               THEN IF lo_f.e \in {"TypeError", "ValueError"} THEN default ELSE lo_f
               ELSE IF hi_f.t = "raise"
               THEN IF hi_f.e \in {"TypeError", "ValueError"} THEN default ELSE hi_f
               ELSE JList(<<lo_f, hi_f>>)

\* _coerce_response(raw, baseline, comps): the payload, or the exception that
\* leaves it
_coerce_response(raw, base, cs) ==
    LET parsed == IF raw.t = "str" THEN JsonLoads(raw.s) ELSE Exc("TypeError")
    IN IF parsed = Exc("JSONDecodeError") THEN base
       ELSE IF parsed.t = "raise" THEN parsed
       ELSE IF parsed.t # "obj" THEN Exc("AttributeError")
       ELSE LET o == parsed.o
                implied == FloatOr(DictGetOr(o, "implied_multiple", base.implied_multiple),
                                   base.implied_multiple)
                computed_range == CoerceRange(DictGetOr(o, "range", base.range), base.range)
                confidence == FloatOr(DictGetOr(o, "confidence", base.confidence),
                                      base.confidence)
            IN IF implied.t = "raise" THEN implied
               ELSE IF computed_range.t = "raise" THEN computed_range
               ELSE IF confidence.t = "raise" THEN confidence
               ELSE [conclusion |-> DictGetOr(o, "conclusion", base.conclusion),
                     implied_multiple |-> implied,
                     range |-> computed_range,
                     reasoning |-> DictGetOr(o, "reasoning", base.reasoning),
                     comps_used |-> DictGetOr(o, "comps_used", JList(CompNames(cs))),
                     risk_flags |-> DictGetOr(o, "risk_flags", base.risk_flags),
                     confidence |-> confidence]

\* _summarize_payload(payload) raises: ", ".join(comps_used[:3]) needs a str or
\* a list whose first three items are strings
SummarizeRaises(p) ==
    LET comps_used == DictGet(p, "comps_used")
    IN /\ Truthy(comps_used)
       /\ comps_used.t # "str"
       /\ ~(/\ comps_used.t = "list"
            /\ \A i \in 1..Len(comps_used.l) : i <= 3 => comps_used.l[i].t = "str")

\* an except clause that names only the HTTP error
BroadExcept_HttpOnly(e) == e = "HTTPError"

\* "except Exception": every exception of the model is one
BroadExcept(e) == e \in {"HTTPError", "RuntimeError", "TypeError", "ValueError",
                         "AttributeError", "OverflowError", "JSONDecodeError"}

\* the triage stage after the backend answered (consultant.py 53-70):
\* [plan, payload], or the exception that leaves the stage
TriageStage(resp, base, cs) ==
    LET none == [plan |-> JNull, payload |-> JNull, raised |-> ""]
    IN IF ~IsOk(resp)
       THEN IF BroadExcept(resp.st) THEN none ELSE [none EXCEPT !.raised = resp.st]
       ELSE LET plan == parse_triage_plan(resp.val)
            IN IF plan.t # "raise" THEN [none EXCEPT !.plan = plan]
               ELSE LET coerced == _coerce_response(resp.val, base, cs)
                    IN IF "t" \in DOMAIN coerced
                       THEN IF BroadExcept(coerced.e) THEN none
                            ELSE [none EXCEPT !.raised = coerced.e]
                       ELSE IF SummarizeRaises(coerced)
                       THEN IF BroadExcept("TypeError") THEN none
                            ELSE [none EXCEPT !.raised = "TypeError"]
                       ELSE [none EXCEPT !.payload = coerced]

\* the synthesis stage runs for every request when a key is set
should_call_gpt_Always(cfg, cx, escalate) == cfg.openai_api_key

\* should_call_gpt (consultant.py 97-99)
should_call_gpt(cfg, cx, escalate) == cfg.openai_api_key /\ (cx = "easy" \/ escalate)

\* deepseek_payload or baseline
Candidate(ds_payload, base) == IF ds_payload # JNull THEN ds_payload ELSE base

\* the synthesis stage after the backend answered (consultant.py 113-116):
\* the final payload, or the exception that leaves the stage
SynthesisStage(resp, current, ds_payload, base, cs) ==
    IF ~IsOk(resp)
    THEN IF BroadExcept(resp.st) THEN current ELSE Exc(resp.st)
    ELSE LET coerced == _coerce_response(resp.val, Candidate(ds_payload, base), cs)
         IN IF "t" \in DOMAIN coerced
            THEN IF BroadExcept(coerced.e) THEN current ELSE coerced
            ELSE coerced

-----------------------------------------------------------------------------
(* One request through retrieval and reasoning: get_similar_chunks, then      *)
(* analyze_valuation (analyzer.py 59-67)                                      *)

\* how the rerank provider is configured: off, Cohere with its key, Cohere
\* named without a key (BGE is used) with and without the BGE url
RerankSettings ==
    {[rerank_provider |-> "none", cohere_api_key |-> FALSE, bge_rerank_url |-> FALSE],
     [rerank_provider |-> "cohere", cohere_api_key |-> TRUE, bge_rerank_url |-> TRUE],
     [rerank_provider |-> "cohere", cohere_api_key |-> FALSE, bge_rerank_url |-> TRUE],
     [rerank_provider |-> "cohere", cohere_api_key |-> FALSE, bge_rerank_url |-> FALSE]}

PipelineSettings ==
    {[openai_api_key |-> o, deepseek_api_key |-> ds, supabase |-> sb,
      rerank_provider |-> r.rerank_provider, cohere_api_key |-> r.cohere_api_key,
      bge_rerank_url |-> r.bge_rerank_url] :
        o \in BOOLEAN, ds \in BOOLEAN, sb \in BOOLEAN, r \in RerankSettings}

\* an easy request, one made hard by its question, one made hard by its deal
PipelineRequests ==
    {[question |-> "Is this valuation reasonable?",
      deal |-> [price |-> 30, ebitda |-> 3, industry |-> "SaaS"]],
     [question |-> "EUR exposure vs peers?",
      deal |-> [price |-> 30, ebitda |-> 3, industry |-> "SaaS"]],
     [question |-> "Is this valuation reasonable?",
      deal |-> [price |-> 0, ebitda |-> 0, industry |-> ""]]}

\* embed_texts: the HTTP call fails, an item lacks "embedding", no item, one vector
EmbedOutcomes ==
    {Raised("EmbeddingError"), Raised("KeyError"), Ok(<<>>), Ok(<<"vector">>)}

\* a vector search: it raises, finds nothing, finds one or two chunks
SearchOutcomes ==
    {Raised("HTTPError"), Ok(<<>>), Ok(<<HitA>>), Ok(<<HitA, HitB>>)}

\* longest result list of a rerank backend
MaxRerank == 2

RerankIndexes == {JNull} \cup {JNum(i * One) : i \in {-3, -1, 0, 1, 2}}

RerankItems == [index : RerankIndexes, relevance_score : {JNum(Dec(95, 100))}]

\* the rerank call: an HTTP error, a body that is not JSON, a result list
RerankOutcomes ==
    {Raised("HTTPError"), Raised("JSONDecodeError")}
        \cup {Ok(items) : items \in SeqsUpTo(RerankItems, MaxRerank)}

ReasoningTexts ==
    {TextProse, TextList, TextPlan, TextWrappedPlan, TextBadPlan, TextPayload,
     TextPayloadLow, TextPayloadCited, TextPayloadOdd, TextPayloadNaN}

\* _call_deepseek_json: an HTTP failure (network, status, timeout), a reply
\* without choices, a null content, a text
TriageResponses ==
    {Raised("HTTPError"), Raised("RuntimeError"), Ok(JNull)}
        \cup {Ok(JStr(text)) : text \in ReasoningTexts}

\* _call_gpt5: an HTTP failure, a reply without output text, a text
SynthesisResponses ==
    {Raised("HTTPError"), Raised("RuntimeError")}
        \cup {Ok(JStr(text)) : text \in ReasoningTexts}

InitPipeline ==
    /\ pc = "embed"
    /\ settings \in PipelineSettings
    /\ db \in BOOLEAN
    /\ \E r \in PipelineRequests : question = r.question /\ deal = r.deal
    /\ comps = <<>>
    /\ embeddings = NotCalled
    /\ supabase_hits = NotCalled
    /\ local_hits = NotCalled
    /\ chunk_hits = <<>>
    /\ reranked = NotCalled
    /\ baseline = JNull
    /\ complexity = ""
    /\ escalate_to_gpt = FALSE
    /\ final_payload = JNull
    /\ calls = NoCalls
    /\ SanitizerIdle /\ CoreIdle /\ TriageIdle /\ ServerIdle /\ CacheIdle

Called1(b) == [calls EXCEPT ![b] = @ + 1]

\* retrieve.py 32-44 and embed.py: without a key embed_texts raises before any
\* call; a failure or an empty output returns []
Embed ==
    /\ pc = "embed"
    /\ IF ~settings.openai_api_key
       THEN /\ embeddings' = Raised("EmbeddingError")
            /\ UNCHANGED calls
       ELSE /\ \E out \in EmbedOutcomes : embeddings' = out
            /\ calls' = Called1("embedding")
    /\ pc' = EmbedNext(embeddings')
    /\ UNCHANGED <<sanitizerVars, coreVars, triageVars, serverVars, cacheVars, settings, db,
                   question, deal, comps, supabase_hits, local_hits, chunk_hits,
                   reranked, baseline, complexity, escalate_to_gpt, final_payload>>

\* retrieve.py 50-60: the remote search, when Supabase is configured
RemoteSearch ==
    /\ pc = "remote"
    /\ IF settings.supabase
       THEN /\ \E out \in SearchOutcomes : supabase_hits' = out
            /\ calls' = Called1("remote")
            /\ chunk_hits' = IF IsOk(supabase_hits') THEN supabase_hits'.val ELSE chunk_hits
       ELSE UNCHANGED <<supabase_hits, calls, chunk_hits>>
    /\ pc' = "local"
    /\ UNCHANGED <<sanitizerVars, coreVars, triageVars, serverVars, cacheVars, settings, db,
                   question, deal, comps, embeddings, local_hits, reranked, baseline,
                   complexity, escalate_to_gpt, final_payload>>

\* retrieve.py 62-76: the local search, then "return []" without hits
LocalSearch ==
    /\ pc = "local"
    /\ IF LocalEligible(chunk_hits, db)
       THEN /\ \E out \in SearchOutcomes : local_hits' = out
            /\ calls' = Called1("local")
            /\ chunk_hits' = IF IsOk(local_hits') THEN local_hits'.val ELSE chunk_hits
       ELSE UNCHANGED <<local_hits, calls, chunk_hits>>
    /\ pc' = IF chunk_hits' = <<>> THEN "retrieved" ELSE "rerank"
    /\ UNCHANGED <<sanitizerVars, coreVars, triageVars, serverVars, cacheVars, settings, db,
                   question, deal, comps, embeddings, supabase_hits, reranked,
                   baseline, complexity, escalate_to_gpt, final_payload>>

\* retrieve.py 78-88: _maybe_rerank, whose result get_similar_chunks returns
Rerank ==
    /\ pc = "rerank"
    /\ LET use_rerank == settings.rerank_provider # "none"
       IN /\ IF use_rerank /\ RerankIssuesCall(settings)
             THEN /\ \E out \in RerankOutcomes : reranked' = out
                  /\ calls' = Called1("rerank")
             ELSE UNCHANGED <<reranked, calls>>
          /\ LET result == _maybe_rerank(settings, chunk_hits, use_rerank, reranked')
             IN IF IsOk(result)
                THEN /\ comps' = result.val
                     /\ pc' = "retrieved"
                     /\ UNCHANGED exc
                ELSE /\ exc' = [type |-> result.st, msg |-> ""]
                     /\ pc' = "raised"
                     /\ UNCHANGED comps
    /\ UNCHANGED <<sanitizerVars, raw_output, sanitize_calls, analysis, recovered,
                   response, triageVars, serverVars, cacheVars, settings, db, question, deal,
                   embeddings, supabase_hits, local_hits, chunk_hits, baseline,
                   complexity, escalate_to_gpt, final_payload>>

\* analyzer.py 59-67 and consultant.py 30-42: get_similar_chunks has returned
\* (its locals are gone), analyze_valuation computes the baseline and classifies
StartValuation ==
    /\ pc = "retrieved"
    /\ baseline' = _heuristic_baseline(deal, comps)
    /\ complexity' = _classify_request(question, deal)
    /\ final_payload' = baseline'
    /\ embeddings' = NotCalled
    /\ supabase_hits' = NotCalled
    /\ local_hits' = NotCalled
    /\ chunk_hits' = <<>>
    /\ reranked' = NotCalled
    /\ pc' = "triage"
    /\ UNCHANGED <<sanitizerVars, coreVars, triageVars, serverVars, cacheVars, settings, db,
                   question, deal, comps, escalate_to_gpt, calls>>

\* consultant.py 44-95: the triage stage and the escalation decision
Triage ==
    /\ pc = "triage"
    /\ IF complexity = "hard" /\ settings.deepseek_api_key
       THEN /\ \E resp \in TriageResponses : deepseek_response' = resp
            /\ calls' = Called1("triage")
       ELSE UNCHANGED <<deepseek_response, calls>>
    /\ LET stage == IF complexity = "hard" /\ settings.deepseek_api_key
                    THEN TriageStage(deepseek_response', baseline, comps)
                    ELSE [plan |-> JNull, payload |-> JNull, raised |-> ""]
       IN IF stage.raised # ""
          THEN /\ exc' = [type |-> stage.raised, msg |-> ""]
               /\ pc' = "raised"
               /\ UNCHANGED <<triage_plan, deepseek_payload, final_payload, escalate_to_gpt>>
          ELSE /\ triage_plan' = stage.plan
               /\ deepseek_payload' = stage.payload
               /\ final_payload' = Candidate(stage.payload, baseline)
               /\ escalate_to_gpt' = _should_escalate(complexity, final_payload', comps)
               /\ pc' = "synthesis"
               /\ UNCHANGED exc
    /\ UNCHANGED <<sanitizerVars, raw_output, sanitize_calls, analysis, recovered,
                   response, retrievalVars, serverVars, cacheVars, settings, question, deal,
                   comps, baseline, complexity, llm_response>>

\* consultant.py 97-139: the synthesis stage, then analyze_valuation returns
Synthesis ==
    /\ pc = "synthesis"
    /\ IF should_call_gpt(settings, complexity, escalate_to_gpt)
       THEN /\ \E resp \in SynthesisResponses : llm_response' = resp
            /\ calls' = Called1("synthesis")
            /\ LET result == SynthesisStage(llm_response', final_payload,
                                            deepseek_payload, baseline, comps)
               IN IF "t" \in DOMAIN result
                  THEN /\ exc' = [type |-> result.e, msg |-> ""]
                       /\ pc' = "raised"
                       /\ UNCHANGED final_payload
                  ELSE /\ final_payload' = result
                       /\ pc' = "returned"
                       /\ UNCHANGED exc
       ELSE /\ pc' = "returned"
            /\ UNCHANGED <<llm_response, calls, final_payload, exc>>
    /\ UNCHANGED <<sanitizerVars, raw_output, sanitize_calls, analysis, recovered,
                   response, retrievalVars, serverVars, cacheVars, settings, question, deal,
                   comps, baseline, complexity, deepseek_response, deepseek_payload,
                   triage_plan, escalate_to_gpt>>

NextPipeline ==
    Embed \/ RemoteSearch \/ LocalSearch \/ Rerank \/ StartValuation \/ Triage \/ Synthesis

SpecPipeline == InitPipeline /\ [][NextPipeline]_vars

-----------------------------------------------------------------------------
(* Properties of retrieval and reasoning, checked under SpecPipeline *)

\* the candidate before synthesis: the triage raw payload if there is one,
\* otherwise the baseline
PreSynthesis == IF deepseek_payload # JNull THEN deepseek_payload ELSE baseline

\* the escalation policy applied to the candidate before synthesis
EscalationDue ==
    /\ complexity = "hard"
    /\ \/ LowConfidence(PreSynthesis)
       \/ (NoCompsUsed(PreSynthesis) /\ comps = <<>>)

\* C13: triage is called only for a hard request with a triage backend
\* configured; synthesis is called exactly when a synthesis backend is
\* configured and the request is easy or the escalation decision is true; when
\* synthesis is not called the final payload is the triage raw payload if
\* there is one, otherwise the baseline.
C13_StageGating ==
    /\ calls["triage"] >= 1 => (complexity = "hard" /\ settings.deepseek_api_key)
    /\ pc = "returned" =>
          /\ calls["synthesis"] >= 1 <=>
                (settings.openai_api_key /\ (complexity = "easy" \/ EscalationDue))
          /\ calls["synthesis"] = 0 => final_payload = PreSynthesis

\* a hard request whose triage payload is confident and cites a comp: synthesis
\* is configured, is not called, and the triage payload is returned
C13_Witness ==
    /\ pc = "returned"
    /\ complexity = "hard"
    /\ calls["triage"] = 1
    /\ settings.openai_api_key
    /\ calls["synthesis"] = 0
    /\ deepseek_payload # JNull
    /\ final_payload = deepseek_payload
    /\ final_payload # baseline

\* analyze_valuation's payload: the seven keys
IsPayload(p) ==
    DOMAIN p = {"conclusion", "implied_multiple", "range", "reasoning", "comps_used",
                "risk_flags", "confidence"}

\* the backend failed: an error, no text, a text that is not a JSON object
BackendFailed(resp) ==
    /\ resp # NotCalled
    /\ \/ ~IsOk(resp)
       \/ resp.val = JNull
       \/ JsonLoads(resp.val.s).t # "obj"

\* C14: no behaviour of the reasoning backends is fatal: analyze_valuation
\* goes on to return a payload; after a triage failure the candidate is the
\* baseline; after a synthesis failure the final payload is the candidate that
\* existed before synthesis.
C14_ReasoningNeverFatal ==
    /\ baseline # JNull => pc # "raised"
    /\ pc \in {"triage", "synthesis"} => ENABLED (Triage \/ Synthesis)
    /\ pc = "returned" => IsPayload(final_payload)
    /\ (pc \in {"synthesis", "returned"} /\ BackendFailed(deepseek_response)) =>
          PreSynthesis = baseline
    /\ (pc = "returned" /\ BackendFailed(llm_response)) => final_payload = PreSynthesis

\* triage produced a payload that called for escalation, synthesis answered
\* with JSON that is not an object, and the triage payload is returned
C14_Witness ==
    /\ pc = "returned"
    /\ deepseek_payload # JNull
    /\ deepseek_payload # baseline
    /\ llm_response = Ok(JStr(TextList))
    /\ final_payload = deepseek_payload

\* triage failed on the network and the baseline is returned
C14_WitnessTriage ==
    /\ pc = "returned"
    /\ deepseek_response = Raised("HTTPError")
    /\ calls["synthesis"] = 0
    /\ final_payload = baseline

\* C18: a request issues each external call at most once; once a call has
\* been answered, with a failure or not, the request has left that stage.
C18_NoRetry ==
    /\ \A b \in Backends : calls[b] <= 1
    /\ embeddings # NotCalled => pc # "embed"
    /\ supabase_hits # NotCalled => pc \notin {"embed", "remote"}
    /\ local_hits # NotCalled => pc \notin {"embed", "remote", "local"}
    /\ reranked # NotCalled => pc \notin {"embed", "remote", "local", "rerank"}
    /\ deepseek_response # NotCalled => pc \in {"synthesis", "returned"}
    /\ llm_response # NotCalled => pc = "returned"

\* every backend was called once, triage and synthesis both failed
C18_Witness ==
    /\ pc = "returned"
    /\ \A b \in Backends : calls[b] = 1
    /\ ~IsOk(deepseek_response)
    /\ ~IsOk(llm_response)

\* the remote search failed and the local search was the next tier
C18_WitnessTier ==
    /\ pc = "rerank"
    /\ supabase_hits = Raised("HTTPError")
    /\ calls["remote"] = 1
    /\ calls["local"] = 1

\* the search was skipped, failed or found nothing
NoHits(out) == out = NotCalled \/ ~IsOk(out) \/ out.val = <<>>

\* C20: get_similar_chunks never raises; a failed or empty embedding yields []
\* without any search; the remote search runs first, exactly when configured;
\* the local search runs only with a db session and after the remote search
\* was skipped, failed or found nothing; without hits from either the result
\* is [].
C20_RetrievalDegrades ==
    /\ ~(pc = "raised" /\ baseline = JNull)
    /\ pc = "remote" => calls["local"] = 0
    /\ pc = "retrieved" =>
          /\ NoHits(embeddings) => (comps = <<>> /\ calls["remote"] = 0 /\ calls["local"] = 0)
          /\ ~NoHits(embeddings) => (calls["remote"] = 1 <=> settings.supabase)
          /\ calls["local"] = 1 => (db /\ NoHits(supabase_hits))
          /\ (NoHits(supabase_hits) /\ NoHits(local_hits)) => comps = <<>>

\* the remote search failed, the local search found chunks, they are returned
C20_Witness ==
    /\ pc = "retrieved"
    /\ supabase_hits = Raised("HTTPError")
    /\ IsOk(local_hits)
    /\ comps # <<>>

\* test_get_similar_chunks_returns_empty_when_embedding_fails
C20_WitnessEmbedding ==
    /\ pc = "retrieved"
    /\ embeddings = Ok(<<>>)
    /\ comps = <<>>

-----------------------------------------------------------------------------
\* The server: concurrent POST /analyze requests on one event loop, the two
\* process-wide semaphores and the request_deadline middleware.

\* number of requests the server receives
MaxRequests == 2

Requests == 1..MaxRequests

\* settings.request_timeout_seconds, in clock ticks
RequestTimeout == 1

\* the clock stops here
MaxTime == 2

\* a request the server has not received yet
NoTask == [stage |-> "idle", step |-> "", started |-> 0,
           status |-> 0, body |-> "", answered |-> 0,
           held |-> [llm |-> 0, rerank |-> 0], cancelled |-> ""]

\* the stages that issue an outbound call under a semaphore
LimitedStages == {"rerank", "triage", "synthesis"}

\* the order of the awaits of POST /analyze
NextStage(stage) ==
    CASE stage = "lookup"    -> "rerank"
      [] stage = "rerank"    -> "triage"
      [] stage = "triage"    -> "synthesis"
      [] stage = "synthesis" -> "respond"
      [] OTHER               -> "done"

\* the task moves on to a stage
Enter(t, stage) ==
    [t EXCEPT !.stage = stage,
              !.step = IF stage \in LimitedStages THEN "enter" ELSE ""]

\* the response the caller receives: the first one sent, nothing replaces it
Answer(t, status, body) ==
    IF t.status = 0
    THEN [t EXCEPT !.status = status, !.body = body, !.answered = now]
    ELSE t

\* the semaphore a stage uses
SemName(stage) == IF stage = "rerank" THEN "rerank" ELSE "llm"

SemOf(stage) == IF stage = "rerank" THEN rerank_sem ELSE llm_sem

\* the task now holds one more, or one fewer, permit of its stage's semaphore
Take(t) == [t EXCEPT !.held[SemName(t.stage)] = @ + 1]

Give(t) == [t EXCEPT !.held[SemName(t.stage)] = @ - 1]

Remove(seq, r) == SelectSeq(seq, LAMBDA x : x # r)

\* Semaphore.locked(): a waiter whose future was cancelled has left the queue
locked_Never(sem) == FALSE

locked(sem) == sem.value = 0 \/ sem.waiters # <<>>

\* positions of the waiters whose future is not done
Pending(st) ==
    {i \in 1..Len(st.sem.waiters) : st.tasks[st.sem.waiters[i]].step = "wait"}

\* Semaphore._wake_up_next(): the first waiter that is not done gets the
\* permit; a release that wakes nobody
_wake_up_next_Nobody(st) == st

_wake_up_next(st) ==
    IF Pending(st) = {} THEN st
    ELSE LET i == CHOOSE i \in Pending(st) : \A j \in Pending(st) : i <= j
             r == st.sem.waiters[i]
         IN  [sem   |-> [st.sem EXCEPT !.value = @ - 1],
              tasks |-> [st.tasks EXCEPT ![r] = [Take(@) EXCEPT !.step = "granted"]]]

\* Semaphore.release()
release(st) == _wake_up_next([st EXCEPT !.sem.value = @ + 1])

\* Semaphore.acquire() up to its await: take a permit or queue
acquire(st, r) ==
    IF ~locked(st.sem)
    THEN [sem   |-> [st.sem EXCEPT !.value = @ - 1],
          tasks |-> [st.tasks EXCEPT ![r] = [Take(@) EXCEPT !.step = "call"]]]
    ELSE [sem   |-> [st.sem EXCEPT !.waiters = Append(@, r)],
          tasks |-> [st.tasks EXCEPT ![r].step = "wait"]]

\* Semaphore.acquire() after its await: leave the queue, pass a spare permit on
resume(st, r) ==
    LET left == [sem   |-> [st.sem EXCEPT !.waiters = Remove(@, r)],
                 tasks |-> [st.tasks EXCEPT ![r].step = "call"]]
    IN  IF left.sem.value > 0 THEN _wake_up_next(left) ELSE left

\* the handler is gone: its position, and what it held with it
Gone(t) ==
    [t EXCEPT !.stage = "done", !.step = "", !.cancelled = t.step,
              !.held = [llm |-> 0, rerank |-> 0]]

\* CancelledError thrown into the handler at its current await: a waiter
\* leaves the queue, a waiter that was handed the permit returns it, the
\* "async with" around a call in flight releases; a cancellation that only
\* unwinds the handler
cancel_Leaky(st, r) == [st EXCEPT !.tasks[r] = Gone(@)]

cancel(st, r) ==
    LET step == st.tasks[r].step
        gone == [st EXCEPT !.tasks[r] = Gone(@)]
        left == [gone EXCEPT !.sem.waiters = Remove(@, r)]
    IN  CASE step = "wait"    -> left
          [] step = "granted" -> release(left)
          [] step = "call"    -> release(gone)
          [] OTHER            -> gone

\* the semaphore of the stage and the tasks take their new values
Store(stage, st) ==
    /\ tasks' = st.tasks
    /\ IF stage = "rerank"
       THEN rerank_sem' = st.sem /\ UNCHANGED llm_sem
       ELSE llm_sem' = st.sem /\ UNCHANGED rerank_sem

Here(stage) == [sem |-> SemOf(stage), tasks |-> tasks]

\* everything but the server's variables
singleVars == <<pc, sanitizerVars, question, comps, deal, coreVars, pipelineVars,
                cacheVars>>

InitServer ==
    /\ pc = "serve"
    /\ question = ""
    /\ comps = <<>>
    /\ deal = NoDeal
    /\ SanitizerIdle /\ CoreIdle /\ PipelineIdle /\ CacheIdle
    /\ tasks = [r \in Requests |-> NoTask]
    /\ llm_sem = Semaphore(llm_max_concurrency)
    /\ rerank_sem = Semaphore(rerank_max_concurrency)
    /\ now = 0

\* request_deadline starts the clock and calls the handler; requests are
\* numbered in the order they arrive
Arrive(r) ==
    /\ tasks[r].stage = "idle"
    /\ \A q \in Requests : q < r => tasks[q].stage # "idle"
    /\ tasks' = [tasks EXCEPT ![r] = [NoTask EXCEPT !.stage = "lookup", !.started = now]]
    /\ UNCHANGED <<llm_sem, rerank_sem, now, singleVars>>

LookupOutcomes == {"ok", "missing", "TimeoutError"}

\* res = await db.execute(select(Deal)...): the deal, no deal, or the
\* driver's TimeoutError, which travels up to request_deadline
Lookup(r, outcome) ==
    /\ tasks[r].stage = "lookup"
    /\ tasks' = [tasks EXCEPT ![r] =
          CASE outcome = "ok"      -> Enter(@, "rerank")
            [] outcome = "missing" -> Enter(Answer(@, 404, "detail"), "done")
            [] OTHER               -> Enter(Answer(@, 504, "deadline_exceeded"), "done")]
    /\ UNCHANGED <<llm_sem, rerank_sem, now, singleVars>>

\* the stage issues no call: no hits or no provider, an easy request or no
\* DeepSeek key, no escalation or no OpenAI key
Skip(r) ==
    /\ tasks[r].stage \in LimitedStages
    /\ tasks[r].step = "enter"
    /\ tasks' = [tasks EXCEPT ![r] = Enter(@, NextStage(@.stage))]
    /\ UNCHANGED <<llm_sem, rerank_sem, now, singleVars>>

\* async with _SEM: __aenter__ up to the first await
Acquire(r) ==
    /\ tasks[r].stage \in LimitedStages
    /\ tasks[r].step = "enter"
    /\ Store(tasks[r].stage, acquire(Here(tasks[r].stage), r))
    /\ UNCHANGED <<now, singleVars>>

\* the woken waiter runs again and issues its call
Resume(r) ==
    /\ tasks[r].stage \in LimitedStages
    /\ tasks[r].step = "granted"
    /\ Store(tasks[r].stage, resume(Here(tasks[r].stage), r))
    /\ UNCHANGED <<now, singleVars>>

\* the outbound call returns or raises: __aexit__ releases the permit
Complete(r) ==
    /\ tasks[r].stage \in LimitedStages
    /\ tasks[r].step = "call"
    /\ LET st == release(Here(tasks[r].stage))
       IN  Store(tasks[r].stage,
                 [st EXCEPT !.tasks[r] = Enter(Give(@), NextStage(@.stage))])
    /\ UNCHANGED <<now, singleVars>>

RespondOutcomes == {<<200, "analysis">>, <<409, "detail">>}

\* the handler returns the analysis or raises HTTPException(409)
Respond(r, outcome) ==
    /\ tasks[r].stage = "respond"
    /\ tasks' = [tasks EXCEPT ![r] = Enter(Answer(@, outcome[1], outcome[2]), "done")]
    /\ UNCHANGED <<llm_sem, rerank_sem, now, singleVars>>

\* no response has been sent for the request yet
Waiting(r) == tasks[r].stage \notin {"idle", "done"} /\ tasks[r].status = 0

\* asyncio.timeout expires: request_deadline answers 504; the handler, which
\* runs in a task of its own, is cancelled or runs on unobserved
Timeout(r, cancelled) ==
    /\ Waiting(r)
    /\ now >= tasks[r].started + RequestTimeout
    /\ LET stage == tasks[r].stage
           st    == [Here(stage) EXCEPT
                        !.tasks[r] = Answer(@, 504, "deadline_exceeded")]
       IN  IF cancelled THEN Store(stage, cancel(st, r))
           ELSE tasks' = st.tasks /\ UNCHANGED <<llm_sem, rerank_sem>>
    /\ UNCHANGED <<now, singleVars>>

\* time passes; a timer that is due runs before the clock moves on
Tick ==
    /\ now < MaxTime
    /\ \A r \in Requests : Waiting(r) => now < tasks[r].started + RequestTimeout
    /\ now' = now + 1
    /\ UNCHANGED <<tasks, llm_sem, rerank_sem, singleVars>>

NextServer ==
    \/ \E r \in Requests : Arrive(r)
    \/ \E r \in Requests, outcome \in LookupOutcomes : Lookup(r, outcome)
    \/ \E r \in Requests : Skip(r)
    \/ \E r \in Requests : Acquire(r)
    \/ \E r \in Requests : Resume(r)
    \/ \E r \in Requests : Complete(r)
    \/ \E r \in Requests, outcome \in RespondOutcomes : Respond(r, outcome)
    \/ \E r \in Requests, cancelled \in BOOLEAN : Timeout(r, cancelled)
    \/ Tick

SpecServer == InitServer /\ [][NextServer]_vars

\* the requests whose outbound call of one of the stages is in flight
InFlight(stages) ==
    {r \in DOMAIN tasks : tasks[r].stage \in stages /\ tasks[r].step = "call"}

\* the requests that hold a permit of a semaphore: call in flight, or woken
\* with the permit and about to issue the call
Holders(stages) ==
    {r \in DOMAIN tasks : tasks[r].stage \in stages
                          /\ tasks[r].step \in {"call", "granted"}}

LlmStages == {"triage", "synthesis"}

RerankStages == {"rerank"}

\* C17: at any moment at most llm_max_concurrency reasoning calls (triage and
\* synthesis together, over all requests) and at most rerank_max_concurrency
\* rerank calls are in flight, and every call in flight holds a permit taken
\* before it was issued: free permits plus holders make up the capacity.
C17_BoundedConcurrency ==
    /\ Cardinality(InFlight(LlmStages)) <= llm_max_concurrency
    /\ Cardinality(InFlight(RerankStages)) <= rerank_max_concurrency
    /\ llm_sem.value >= 0
    /\ rerank_sem.value >= 0
    /\ llm_sem.value + Cardinality(Holders(LlmStages)) = llm_max_concurrency
    /\ rerank_sem.value + Cardinality(Holders(RerankStages)) = rerank_max_concurrency

\* every reasoning permit is in use by a call and a further request queues
C17_Witness ==
    /\ Cardinality(InFlight(LlmStages)) = llm_max_concurrency
    /\ \E r \in DOMAIN tasks : tasks[r].stage \in LlmStages /\ tasks[r].step = "wait"

\* the same for the rerank limiter
C17_WitnessRerank ==
    /\ Cardinality(InFlight(RerankStages)) = rerank_max_concurrency
    /\ \E r \in DOMAIN tasks : tasks[r].stage = "rerank" /\ tasks[r].step = "wait"

\* the deadline of a request
Deadline(r) == tasks[r].started + RequestTimeout

Answered(r) == tasks[r].stage # "idle" /\ tasks[r].status # 0

\* a request still unanswered when its deadline has passed gets 504
\* deadline_exceeded and no analysis
DeadlineYields504 ==
    \A r \in DOMAIN tasks :
        /\ Waiting(r) => now <= Deadline(r)
        /\ (Answered(r) /\ tasks[r].answered > Deadline(r)) =>
               tasks[r].status = 504
        /\ tasks[r].status = 504 => tasks[r].body = "deadline_exceeded"
        /\ tasks[r].body = "analysis" => tasks[r].status = 200

\* a request answered before its deadline does not get 504
No504BeforeDeadline ==
    \A r \in DOMAIN tasks :
        (Answered(r) /\ tasks[r].status = 504) => tasks[r].answered >= Deadline(r)

\* C19: a request still running when request_timeout_seconds has elapsed is
\* answered 504 deadline_exceeded without any analysis payload, and a request
\* that finishes before its deadline is never answered 504.
C19_Deadline == DeadlineYields504 /\ No504BeforeDeadline

-----------------------------------------------------------------------------
\* Re-ranking: the provider chain and the hits get_similar_chunks returns.

\* the primary rerank provider (Cohere) is configured
PrimaryConfigured(cfg) == cfg.rerank_provider = "cohere" /\ cfg.cohere_api_key

\* the call of the primary provider was issued and failed
PrimaryFailed ==
    /\ PrimaryConfigured(settings)
    /\ calls["rerank"] >= 1
    /\ ~IsOk(reranked)

\* C21: when the primary rerank provider is configured and its call fails, a
\* second rerank call, to the secondary local provider, is issued for the
\* request before the original ordering is returned.
C21_RerankFallbackChain ==
    (pc = "retrieved" /\ PrimaryFailed) => calls["rerank"] = 2

\* the chunk ids of a list of hits, in order
ChunkIds(hs) == [i \in 1..Len(hs) |-> hs[i].chunk_id]

\* the set of chunk ids of a list of hits
ChunkIdSet(hs) == {hs[i].chunk_id : i \in 1..Len(hs)}

\* the answer of the reranker names every position 0..n-1 exactly once
CompletePermutation(out, n) ==
    /\ IsOk(out)
    /\ Len(out.val) = n
    /\ \A i \in 1..n : out.val[i].index # JNull
    /\ {Idx(out.val[i].index) : i \in 1..n} = 0..(n - 1)

\* C22: whatever the reranker answers, get_similar_chunks returns each chunk
\* of the vector search exactly once (same count, same chunk ids), and in the
\* original order unless the reranker's indices are a complete permutation.
C22_RerankKeepsEvidence ==
    pc = "retrieved" =>
        /\ Len(comps) = Len(chunk_hits)
        /\ ChunkIdSet(comps) = ChunkIdSet(chunk_hits)
        /\ ~CompletePermutation(reranked, Len(chunk_hits)) =>
               ChunkIds(comps) = ChunkIds(chunk_hits)

-----------------------------------------------------------------------------
(* app/services/cache.py: TTLCache and a caller that keeps and mutates the   *)
(* objects it passes in and gets back                                        *)

\* TTLCache(maxsize, ttl), scaled down
maxsize == 2

ttl == 1

\* number of get and set operations of a run
MaxOps == 4

\* what a cached payload can contain
Values == {0, 1}

\* number of objects the caller keeps; it lets go of the oldest
MaxHeld == 2

\* id() of the next two objects created: the lowest addresses that are free
FreeIds(h) == (1..(Cardinality(DOMAIN h) + 2)) \ DOMAIN h

Lowest(ids) == CHOOSE n \in ids : \A m \in ids : n <= m

\* the heap with one more object
New(h, id, obj) == [x \in DOMAIN h \cup {id} |-> IF x = id THEN obj ELSE h[x]]

\* a new payload, a dict that holds a list, is built with the given content
Alloc(h, v) ==
    LET dict == Lowest(FreeIds(h))
        list == Lowest(FreeIds(h) \ {dict})
    IN  [heap |-> New(New(h, dict, [child |-> list, v |-> 0]),
                      list, [child |-> 0, v |-> v]),
         ref  |-> dict]

\* reference counting: an object nobody holds is freed
Collect(h, roots) ==
    [x \in roots \cup {h[r].child : r \in roots} |-> h[x]]

\* the caller keeps one more object
Keep(held, r) ==
    IF Len(held) >= MaxHeld THEN Append(Tail(held), r) ELSE Append(held, r)

\* the objects of a sequence of references
Range(seq) == {seq[i] : i \in 1..Len(seq)}

\* the objects the entries of the cache hold
StoreRefs(store) == {store[i].ref : i \in 1..Len(store)}

\* the content of a payload
Content(h, r) == h[h[r].child].v

\* copy.deepcopy(value): a new dict holding a new list; copy.copy instead
deepcopy_Shallow(h, r) ==
    [heap |-> New(h, Lowest(FreeIds(h)), [child |-> h[r].child, v |-> 0]),
     ref  |-> Lowest(FreeIds(h))]

deepcopy(h, r) == Alloc(h, Content(h, r))

\* the keys of an OrderedDict
KeysOf(store) == {store[i].key : i \in 1..Len(store)}

\* self._store[key]
Entry(store, key) == store[CHOOSE i \in 1..Len(store) : store[i].key = key]

\* self._store.pop(key, None)
pop(store, key) == SelectSeq(store, LAMBDA e : e.key # key)

\* self._store.move_to_end(key)
move_to_end_Noop(store, key) == store

move_to_end(store, key) == Append(pop(store, key), Entry(store, key))

\* self._store[key] = item: a new key goes last, a known key keeps its place
setitem(store, item) ==
    IF item.key \in KeysOf(store)
    THEN [i \in 1..Len(store) |-> IF store[i].key = item.key THEN item ELSE store[i]]
    ELSE Append(store, item)

\* while len(self._store) > self.maxsize: self._store.popitem(last=False)
RECURSIVE Evict(_)
Evict(store) == IF Len(store) > maxsize THEN Evict(Tail(store)) ELSE store

\* expires_at < time.monotonic()
Expired_Never(entry, t) == FALSE

Expired(entry, t) == entry.expires_at < t

InitCache ==
    /\ pc = "cache"
    /\ question = ""
    /\ comps = <<>>
    /\ deal = NoDeal
    /\ SanitizerIdle /\ CoreIdle /\ PipelineIdle /\ ServerIdle /\ CacheIdle

\* everything but the clock and the cache's variables
uncachedVars == <<pc, sanitizerVars, question, comps, deal, coreVars, pipelineVars,
                  tasks, llm_sem, rerank_sem>>

\* TTLCache.get(key); the caller keeps what it gets
Get(key) ==
    /\ ghost.ops < MaxOps
    /\ LET miss == [NoOp EXCEPT !.op = "get", !.key = key, !.at = now]
       IN  IF key \notin KeysOf(_store)
           THEN /\ last_op' = miss
                /\ ghost' = [ghost EXCEPT !.ops = @ + 1]
                /\ UNCHANGED <<_store, heap, refs>>
           ELSE IF Expired(Entry(_store, key), now)
           THEN /\ _store' = pop(_store, key)
                /\ last_op' = miss
                /\ ghost' = [ghost EXCEPT !.ops = @ + 1]
                /\ heap' = Collect(heap, Range(refs) \cup StoreRefs(_store'))
                /\ UNCHANGED refs
           ELSE LET copied == deepcopy(heap, Entry(_store, key).ref)
                IN  /\ _store' = move_to_end(_store, key)
                    /\ refs' = Keep(refs, copied.ref)
                    /\ heap' = Collect(copied.heap, Range(refs') \cup StoreRefs(_store'))
                    /\ last_op' = [miss EXCEPT !.hit = TRUE, !.ret = copied.ref,
                                               !.value = Content(copied.heap, copied.ref)]
                    /\ ghost' = [ghost EXCEPT !.ops = @ + 1, !.used_at[key] = ghost.ops + 1]
    /\ UNCHANGED <<now, uncachedVars>>

\* keys are opaque to the cache: the caller's first new key is called "a",
\* its second "b", its third "c"
Earlier(key) == CASE key = "a" -> {} [] key = "b" -> {"a"} [] OTHER -> {"a", "b"}

\* TTLCache.set(key, value) with a payload the caller has just built and keeps
Set(key, v) ==
    /\ ghost.ops < MaxOps
    /\ \A k \in Earlier(key) : ghost.set_at[k] >= 0
    /\ LET built  == Alloc(heap, v)
           value  == built.ref
           copied == deepcopy(built.heap, value)
           item   == [key |-> key, expires_at |-> now + ttl, ref |-> copied.ref]
           stored == move_to_end(setitem(_store, item), key)
       IN  /\ _store' = Evict(stored)
           /\ refs' = Keep(refs, value)
           /\ heap' = Collect(copied.heap, Range(refs') \cup StoreRefs(_store'))
           /\ last_op' = [NoOp EXCEPT !.op = "set", !.key = key, !.at = now,
                                      !.evicted = KeysOf(stored) \ KeysOf(Evict(stored))]
           /\ ghost' = [ghost EXCEPT !.ops = @ + 1, !.used_at[key] = ghost.ops + 1,
                                     !.set_op[key] = ghost.ops + 1,
                                     !.set_at[key] = now, !.value[key] = v]
    /\ UNCHANGED <<now, uncachedVars>>

\* the caller changes the list inside a payload it holds
Mutate(r) ==
    /\ r \in Range(refs)
    /\ heap' = [heap EXCEPT ![heap[r].child].v = 1 - @]
    /\ UNCHANGED <<now, _store, refs, ghost, last_op, uncachedVars>>

\* time.monotonic() moves on
Elapse ==
    /\ pc = "cache"
    /\ now < MaxTime
    /\ now' = now + 1
    /\ UNCHANGED <<cacheVars, uncachedVars>>

NextCache ==
    \/ \E key \in Keys : Get(key)
    \/ \E key \in Keys, v \in Values : Set(key, v)
    \/ \E r \in Range(refs) : Mutate(r)
    \/ Elapse

SpecCache == InitCache /\ [][NextCache]_vars

\* C23: the cache never holds more than maxsize entries, and an entry
\* evicted by a set was used (set, or read by a successful get) before
\* every entry that stays.
C23_CapacityAndLru ==
    /\ Len(_store) <= maxsize
    /\ \A e \in last_op.evicted : \A k \in KeysOf(_store) :
           ghost.used_at[e] < ghost.used_at[k]

\* a set evicted a key although another key, set before it, stays: a get had
\* made the older key the more recently used one
C23_Witness ==
    /\ Len(_store) = maxsize
    /\ \E e \in last_op.evicted : \E k \in KeysOf(_store) :
           ghost.set_op[k] < ghost.set_op[e]

\* time since the most recent set of the key of the last operation
Age == last_op.at - ghost.set_at[last_op.key]

\* C24: a get returns the value of the most recent set of the key, and only
\* while no more than ttl has elapsed since that set; a get of an expired
\* entry returns None and removes it; no entry outlives the ttl of its last
\* set, so a successful get does not extend it.
C24_Expiry ==
    /\ (last_op.op = "get" /\ last_op.hit) =>
          /\ ghost.set_at[last_op.key] >= 0
          /\ Age <= ttl
          /\ last_op.value = ghost.value[last_op.key]
    /\ (last_op.op = "get" /\ ghost.set_at[last_op.key] >= 0 /\ Age > ttl) =>
          /\ ~last_op.hit
          /\ last_op.key \notin KeysOf(_store)
    /\ \A i \in 1..Len(_store) :
          _store[i].expires_at = ghost.set_at[_store[i].key] + ttl

\* a key was read with success, then read again after its ttl had elapsed:
\* the second get returned None and the entry is gone
C24_Witness ==
    /\ last_op.op = "get"
    /\ ~last_op.hit
    /\ ghost.set_at[last_op.key] >= 0
    /\ ghost.used_at[last_op.key] > ghost.set_op[last_op.key]
    /\ Age > ttl
    /\ last_op.key \notin KeysOf(_store)

\* the lists reachable from the objects the caller holds
CallerLists == {heap[r].child : r \in Range(refs)}

\* C25: the value held for a key is the value of its last set whatever the
\* caller does to the objects it passed in or got back, and no object of an
\* entry or of a get is shared with another holder.
C25_Isolation ==
    /\ \A i \in 1..Len(_store) :
          /\ Content(heap, _store[i].ref) = ghost.value[_store[i].key]
          /\ _store[i].ref \notin Range(refs)
          /\ heap[_store[i].ref].child \notin CallerLists
    /\ \A i, j \in 1..Len(refs) : i # j => heap[refs[i]].child # heap[refs[j]].child

\* one key was set; the caller changed an object it had got back; a further
\* get still returns the value that was set
C25_Witness ==
    /\ last_op.op = "get"
    /\ last_op.hit
    /\ \A k \in Keys \ {last_op.key} : ghost.set_at[k] < 0
    /\ ghost.set_op[last_op.key] = 1
    /\ last_op.value = ghost.value[last_op.key]
    /\ \E r \in Range(refs) : r # last_op.ret /\ Content(heap, r) # ghost.value[last_op.key]

-----------------------------------------------------------------------------
\* _coerce_response as the triage and the synthesis stage apply it.

\* float(value) succeeds
Converts(v) == PyFloat(v).t # "raise"

\* a two-element sequence of numbers
NumericPair(v) == v.t = "list" /\ Len(v.l) = 2 /\ Converts(v.l[1]) /\ Converts(v.l[2])

\* what the claim says of _coerce_response(raw, seed, comps) = out
CoerceRule(raw, seed, out) ==
    LET parsed == JsonLoads(raw)
    IN  /\ parsed = Exc("JSONDecodeError") => out = seed
        /\ parsed.t = "obj" =>
              LET o == parsed.o
              IN  /\ ("implied_multiple" \notin DOMAIN o \/ ~Converts(o["implied_multiple"]))
                        => out.implied_multiple = seed.implied_multiple
                  /\ ("range" \notin DOMAIN o \/ ~NumericPair(o["range"]))
                        => out.range = seed.range
                  /\ ("confidence" \notin DOMAIN o \/ ~Converts(o["confidence"]))
                        => out.confidence = seed.confidence
                  /\ \A k \in {"comps_used", "risk_flags"} :
                        (k \notin DOMAIN o \/ o[k].t # "list") => out[k] = seed[k]

\* the synthesis stage kept the result of _coerce_response
SynthesisCoerced ==
    /\ pc = "returned"
    /\ IsOk(llm_response)
    /\ llm_response.val.t = "str"
    /\ ~("t" \in DOMAIN _coerce_response(llm_response.val, PreSynthesis, comps))

\* C26: _coerce_response returns the seed when raw is not JSON; when raw
\* parses, implied_multiple, range and confidence take the seed's value when
\* absent or not convertible, and comps_used and risk_flags take the seed's
\* values when absent or malformed.
C26_CoerceDefaults ==
    /\ (pc \in {"synthesis", "returned"} /\ deepseek_payload # JNull) =>
          CoerceRule(deepseek_response.val.s, baseline, deepseek_payload)
    /\ SynthesisCoerced =>
          CoerceRule(llm_response.val.s, PreSynthesis, final_payload)

-----------------------------------------------------------------------------
\* The server under fair scheduling: the event loop runs a task that was
\* woken, and every outbound call in flight returns or fails in the end.

FairServer ==
    \A r \in Requests : WF_vars(Resume(r)) /\ WF_vars(Complete(r))

SpecServerFair == SpecServer /\ FairServer

\* the request is queued on a limiter
Queued(r) == tasks[r].stage \in LimitedStages /\ tasks[r].step = "wait"

\* the request has issued the call of a stage
Calling(r) == tasks[r].stage \in LimitedStages /\ tasks[r].step = "call"

\* the deadline has answered the request and cancelled its handler
CancelledByDeadline(r) == tasks[r].stage = "done" /\ tasks[r].status = 504

\* a queued request leaves the queue only with a permit or by cancellation:
\* the limiter itself never fails a request or lets it go on without a call
QueueOnlyDelays ==
    [][\A r \in Requests :
          Queued(r) =>
              \/ tasks'[r].stage = tasks[r].stage
                 /\ tasks'[r].step \in {"wait", "granted"}
              \/ CancelledByDeadline(r)']_vars

-----------------------------------------------------------------------------
\* Permits over the life of a request.

\* the permits of a semaphore that requests hold
RECURSIVE HeldUpTo(_, _)
HeldUpTo(name, n) ==
    IF n = 0 THEN 0 ELSE tasks[n].held[name] + HeldUpTo(name, n - 1)

Held(name) == HeldUpTo(name, MaxRequests)

\* the request has a call in flight, or was handed the permit by a release
\* and issues its call as soon as the event loop runs it
CallDue(r, name) ==
    /\ tasks[r].stage \in LimitedStages
    /\ SemName(tasks[r].stage) = name
    /\ tasks[r].step \in {"call", "granted"}

\* a waiter that no release has served yet
Unserved(sem) ==
    \E i \in 1..Len(sem.waiters) : tasks[sem.waiters[i]].step = "wait"

\* C28: a request holds a permit only for its call (taken right before it,
\* given back when the call returns, fails or is cancelled by the deadline),
\* never two at once; permits free plus permits held always make up the
\* capacity, so with no call due every permit is free, and a request waits
\* only while some request holds a permit for a call that is due, whose
\* return or start wakes the queue.
C28_NoLeakNoNesting ==
    /\ \A r \in Requests :
          /\ tasks[r].held["llm"] + tasks[r].held["rerank"] <= 1
          /\ \A name \in {"llm", "rerank"} :
                tasks[r].held[name] = (IF CallDue(r, name) THEN 1 ELSE 0)
    /\ llm_sem.value + Held("llm") = llm_max_concurrency
    /\ rerank_sem.value + Held("rerank") = rerank_max_concurrency
    /\ Unserved(llm_sem) => \E r \in Requests : CallDue(r, "llm")
    /\ Unserved(rerank_sem) => \E r \in Requests : CallDue(r, "rerank")

\* the deadline cancelled a request whose outbound call was in flight, and
\* every permit is free again
C28_Witness ==
    /\ \E r \in Requests : tasks[r].cancelled = "call" /\ tasks[r].status = 504
    /\ \A r \in Requests : tasks[r].stage = "done"
    /\ llm_sem = Semaphore(llm_max_concurrency)
    /\ rerank_sem = Semaphore(rerank_max_concurrency)

\* the deadline cancelled a waiter that had just been handed the permit; the
\* permit went on to the next waiter
C28_WitnessHandedOver ==
    \E r, q \in Requests :
        /\ tasks[r].cancelled = "granted"
        /\ tasks[q].step \in {"granted", "call"}
        /\ tasks[q].held["llm"] + tasks[q].held["rerank"] = 1

-----------------------------------------------------------------------------
\* When a hard request goes without synthesis.

\* the payload's confidence is a number, at least 0.55
ConfidentEnough(p) ==
    /\ "confidence" \in DOMAIN p
    /\ FLe(JNum(EscalateBelow), p.confidence)

\* triage produced a raw payload: its reply parsed, but not as a TriagePlan
TriageGavePayload == deepseek_payload # JNull /\ triage_plan = JNull

\* C29: for a hard request with a synthesis backend configured, synthesis is
\* skipped only when triage returned a raw payload whose confidence is at
\* least 0.55 and which has comps_used or retrieval hits; when triage was not
\* run, failed or returned a TriagePlan, the candidate is the baseline, with
\* confidence 0.5, and synthesis is called.
C29_HardSkipsOnlyWhenConfident ==
    (pc = "returned" /\ complexity = "hard" /\ settings.openai_api_key) =>
        /\ calls["synthesis"] = 0 =>
              /\ TriageGavePayload
              /\ ConfidentEnough(deepseek_payload)
              /\ (~NoCompsUsed(deepseek_payload) \/ comps # <<>>)
        /\ ~TriageGavePayload =>
              /\ PreSynthesis = baseline
              /\ baseline.confidence = JNum(Dec(5, 10))
              /\ calls["synthesis"] = 1

-----------------------------------------------------------------------------
\* The lexicon signal and the outcome of analyze_core.

\* retrieval_required as analyzer.py 56 and 65 compute it from the lexicon
\* signal and the hit count
RequiredFor(lexicon, hits) == lexicon \/ hits > 0

\* analyze_core hands the sanitizer, and reports in its metadata, the lexicon
\* signal or'ed with 'any hits'
ReportsLexicon ==
    Retrieve =>
        retrieval_required' = RequiredFor(_should_require_retrieval(question),
                                          retrieval_hits')

\* both sanitize calls, the only readers of retrieval_required, return what
\* they would return under either value of the lexicon signal
SanitizerBlindToLexicon ==
    \A lexicon \in BOOLEAN :
        /\ SanitizeCandidate =>
             first' = sanitize_analysis_payload(raw_output, baseline_multiple,
                                                RequiredFor(lexicon, retrieval_hits),
                                                retrieval_hits)
        /\ (Recover /\ sanitize_calls' # sanitize_calls) =>
             second' = sanitize_analysis_payload(raw_output', baseline_multiple,
                                                 RequiredFor(lexicon, retrieval_hits),
                                                 retrieval_hits)

\* C30: two runs of analyze_core that differ only in whether the question
\* matches the retrieval lexicon, with the same chunks and the same candidate,
\* produce the same analysis or the same failure; the lexicon shows only in
\* the retrieval_required value of the metadata.
C30_LexiconCannotChangeOutcome == [][ReportsLexicon /\ SanitizerBlindToLexicon]_vars

\* a request whose question matches the lexicon, with no hits and no
\* citations: analysed, and reported as retrieval_required
C30_Witness ==
    /\ pc = "done"
    /\ retrieval_hits = 0
    /\ retrieval_required
    /\ response.status = 200
    /\ analysis.comps_used.l = <<>>
    /\ _should_require_retrieval(question)

\* a request that went through the except branch with hits and a matching
\* question
C30_WitnessRecovered ==
    /\ pc = "done"
    /\ retrieval_hits > 0
    /\ recovered
    /\ response.status = 200
    /\ _should_require_retrieval(question)

====
